---- MODULE Spec2Model ----
(***************************************************************************)
(* Build-time content hooks of PlainLicenses (overrides/hooks):            *)
(* license_factory.py, shame_counter.py, update_changelogs.py, _utils.py.  *)
(*                                                                         *)
(* Texts are sequences of lexemes (strings).  A lexeme is a piece of text  *)
(* the regular expressions of the hooks treat as a unit: a single          *)
(* character such as "{", " " or "\n", or a word such as "year".           *)
(***************************************************************************)
EXTENDS Integers, Sequences, FiniteSets, TLC

VARIABLES
    text,        \* the text handed to the text transform under test
    expect,      \* what the writer of the text intends each piece to become
    out,         \* the text the last call of the transform returned
    calls,       \* number of calls of the transform made so far
    footnotes,   \* the footnote list as the last call left it
    plaintext,   \* the plaintext argument of the last call
    mapping,     \* the mapping handed to render_mapping
    result,      \* what the last call of render_mapping did
    _instance,       \* ShameCounter._instance: 0 is None, else the object
    _instantiated,   \* ShameCounter._instantiated
    objects,         \* number of ShameCounter objects created so far
    shame_map,       \* the fields of the ShameCounter instance ...
    shame_counts,
    total_counts,
    ratios,
    totals,
    page_calls,      \* number of on_page_markdown calls made so far
    last,            \* the last call of the shame counter's interface
    files,           \* the Files collection of the build
    config_boilerplate,  \* config["extra"]["boilerplate"]
    package_files,   \* packages/<id>/package.json, by <id>
    built,           \* what on_files did, and the state it started from
    pre_page,        \* the last call of on_pre_page
    status,          \* Status._instance and the fields of the object
    world,           \* what a function called on its own reads and writes:
                     \* its arguments, the files and the environment
    call             \* the last call of such a function

textVars == <<text, expect, out, calls, footnotes, plaintext>>
renderVars == <<mapping, result>>
shameFields == <<shame_map, shame_counts, total_counts, ratios, totals>>
shameVars == <<_instance, _instantiated, objects, shameFields, page_calls, last>>

buildVars == <<files, config_boilerplate, package_files, built, pre_page>>

callVars == <<world, call>>

vars == <<textVars, renderVars, shameVars, buildVars, status, callVars>>

\* the variables a text transform leaves alone
notText == <<renderVars, shameVars, buildVars, status, callVars>>
\* the variables render_mapping leaves alone
notRender == <<textVars, shameVars, buildVars, status, callVars>>
\* the variables the shame counter leaves alone
notShame == <<textVars, renderVars, buildVars, status, callVars>>
\* the variables the build leaves alone
notBuild == <<textVars, renderVars, shameVars, status, callVars>>
\* the variables the constructor of Status leaves alone
notStatus == <<textVars, renderVars, shameVars, buildVars, callVars>>
\* the variables a function called on its own leaves alone
notCall == <<textVars, renderVars, shameVars, buildVars, status>>

TextIdle ==
    /\ text = <<>>
    /\ expect = <<>>
    /\ out = <<>>
    /\ calls = 0
    /\ footnotes = <<>>
    /\ plaintext = FALSE

RenderIdle ==
    /\ mapping = <<>>
    /\ result = [called |-> FALSE]

\* no ShameCounter yet: the class attributes as the class statement sets them
ShameIdle ==
    /\ _instance = 0
    /\ _instantiated = FALSE
    /\ objects = 0
    /\ shame_map = <<>>
    /\ shame_counts = <<>>
    /\ total_counts = <<>>
    /\ ratios = <<>>
    /\ totals = <<>>
    /\ page_calls = 0
    /\ last = [op |-> "none"]

\* no build yet
BuildIdle ==
    /\ files = <<>>
    /\ config_boilerplate = <<>>
    /\ package_files = <<>>
    /\ built = [called |-> FALSE]
    /\ pre_page = [called |-> FALSE]

\* _instance: ClassVar["Status | None"] = None
NoStatus == [made |-> FALSE]

StatusIdle == status = NoStatus

\* no function called on its own
NoCall == [op |-> "none"]

CallIdle ==
    /\ world = <<>>
    /\ call = NoCall

NotTextIdle == RenderIdle /\ ShameIdle /\ BuildIdle /\ StatusIdle /\ CallIdle
NotRenderIdle == TextIdle /\ ShameIdle /\ BuildIdle /\ StatusIdle /\ CallIdle
NotShameIdle == TextIdle /\ RenderIdle /\ BuildIdle /\ StatusIdle /\ CallIdle
NotBuildIdle == TextIdle /\ RenderIdle /\ ShameIdle /\ StatusIdle /\ CallIdle
NotCallIdle == TextIdle /\ RenderIdle /\ ShameIdle /\ BuildIdle /\ StatusIdle

(***************************************************************************)
(* Bounds of the model.                                                    *)
(***************************************************************************)
MaxYearChunks == 2
MaxPad == 3
MaxNoteChunks == 2
MaxDefChunks == 3
MaxKeys == 3
MaxPageCalls == 3
MaxFiles == 2

(***************************************************************************)
(* Sequence helpers.                                                       *)
(***************************************************************************)
Min(a, b) == IF a < b THEN a ELSE b

SetMax(S) == CHOOSE x \in S : \A y \in S : y <= x

Slice(s, i, j) == IF j < i THEN <<>> ELSE SubSeq(s, i, j)

Rep(tok, n) == [i \in 1..n |-> tok]

\* the concatenation of ss[a], ..., ss[b], each followed by sep
RECURSIVE Concat(_, _, _, _)
Concat(ss, a, b, sep) ==
    IF b < a THEN <<>>
    ELSE IF a = b THEN ss[a] \o sep
         ELSE Concat(ss, a, (a + b) \div 2, sep)
                 \o Concat(ss, (a + b) \div 2 + 1, b, sep)

Flatten(ss) == Concat(ss, 1, Len(ss), <<>>)

\* s occurs in t as a contiguous piece
Contains(t, s) ==
    \E i \in 1..(Len(t) - Len(s) + 1) : Slice(t, i, i + Len(s) - 1) = s

(***************************************************************************)
(* Python's re, for the patterns the hooks use: a pattern is a sequence of *)
(* elements, each a character class with a repetition {min,max} that is    *)
(* greedy or lazy; matching backtracks as re does and the first success    *)
(* wins.  A match is the sequence of the positions where each element      *)
(* starts, followed by the position after the match.                       *)
(***************************************************************************)
Lit(tok) == [cls |-> {tok}, min |-> 1, max |-> 1, greedy |-> TRUE]
Cls(S, lo, hi, g) == [cls |-> S, min |-> lo, max |-> hi, greedy |-> g]

\* the length of the run of lexemes of cls from position i on, at most limit
RECURSIVE Run(_, _, _, _, _)
Run(cls, txt, i, c, limit) ==
    IF c < limit /\ txt[i + c] \in cls THEN Run(cls, txt, i, c + 1, limit) ELSE c

\* max < 0: no upper limit ("*", "+")
RunLen(e, txt, i) ==
    Run(e.cls, txt, i, 0,
        IF e.max < 0 THEN Len(txt) - i + 1 ELSE Min(e.max, Len(txt) - i + 1))

RECURSIVE MatchFrom(_, _, _, _), TryCount(_, _, _, _, _)
MatchFrom(pat, k, txt, i) ==
    LET from(hi) ==
            IF hi < pat[k].min THEN <<>>
            ELSE TryCount(pat, k, txt, i, IF pat[k].greedy THEN hi ELSE pat[k].min)
    IN  IF k > Len(pat) THEN <<i>> ELSE from(RunLen(pat[k], txt, i))

TryCount(pat, k, txt, i, c) ==
    LET or_retry(rest) ==
            IF rest # <<>> THEN <<i>> \o rest
            ELSE IF pat[k].greedy
                 THEN IF c - 1 < pat[k].min THEN <<>>
                      ELSE TryCount(pat, k, txt, i, c - 1)
                 ELSE IF c + 1 > RunLen(pat[k], txt, i) THEN <<>>
                      ELSE TryCount(pat, k, txt, i, c + 1)
    IN  or_retry(MatchFrom(pat, k + 1, txt, i + c))

MatchEnd(m) == m[Len(m)]
MatchText(txt, m) == Slice(txt, m[1], MatchEnd(m) - 1)
Group(txt, m, k) == Slice(txt, m[k], m[k + 1] - 1)

\* re.finditer: the leftmost matches, none overlapping another
RECURSIVE FindAll(_, _, _)
FindAll(pat, txt, i) ==
    LET matches(starts) ==
            IF starts = {} THEN <<>>
            ELSE MatchFrom(pat, 1, txt,
                           CHOOSE j \in starts : \A n \in starts : j <= n)
        and_rest(m) ==
            IF m = <<>> THEN <<>> ELSE <<m>> \o FindAll(pat, txt, MatchEnd(m))
    IN  and_rest(matches({j \in i..Len(txt) :
                             /\ pat[1].min = 0 \/ txt[j] \in pat[1].cls
                             /\ MatchFrom(pat, 1, txt, j) # <<>>}))

finditer(pat, txt) == FindAll(pat, txt, 1)

\* re.sub with one replacement per match: repl[n] replaces the n-th match
RECURSIVE SubFrom(_, _, _, _, _)
SubFrom(txt, ms, repl, n, pos) ==
    IF n > Len(ms) THEN Slice(txt, pos, Len(txt))
    ELSE Slice(txt, pos, ms[n][1] - 1) \o repl[n]
            \o SubFrom(txt, ms, repl, n + 1, MatchEnd(ms[n]))

sub(pat, repl, txt) == SubFrom(txt, finditer(pat, txt), repl, 1, 1)

\* str.replace(old, new): every occurrence, left to right, none overlapping
RECURSIVE ReplaceFrom(_, _, _, _)
ReplaceFrom(txt, old, new, i) ==
    IF i > Len(txt) THEN <<>>
    ELSE IF i + Len(old) - 1 <= Len(txt) /\ Slice(txt, i, i + Len(old) - 1) = old
         THEN new \o ReplaceFrom(txt, old, new, i + Len(old))
         ELSE <<txt[i]>> \o ReplaceFrom(txt, old, new, i + 1)

replace(txt, old, new) == IF old = <<>> THEN txt ELSE ReplaceFrom(txt, old, new, 1)

\* \s of re
WS == {" ", "\n"}

\* str.strip()
RECURSIVE lstrip(_)
lstrip(s) == IF s # <<>> /\ Head(s) \in WS THEN lstrip(Tail(s)) ELSE s
RECURSIVE rstrip(_)
rstrip(s) ==
    IF s # <<>> /\ s[Len(s)] \in WS THEN rstrip(Slice(s, 1, Len(s) - 1)) ELSE s
strip(s) == rstrip(lstrip(s))

(***************************************************************************)
(* LicenseContent.replace_year                                             *)
(***************************************************************************)
\* self.year: the current year as text
year == <<"2026">>

_year_pattern_loose ==
    <<Lit("{"), Lit("{"), Cls(WS, 0, 2, TRUE), Lit("year"),
      Cls(WS, 0, 2, TRUE), Lit("}"), Lit("}")>>

_year_pattern ==
    <<Lit("{"), Lit("{"), Cls(WS, 1, 2, TRUE), Lit("year"),
      Cls(WS, 1, 2, TRUE), Lit("}"), Lit("}")>>

replace_year(txt) ==
    LET with_year(ms) == SubFrom(txt, ms, [n \in 1..Len(ms) |-> year], 1, 1)
    IN  with_year(finditer(_year_pattern, txt))

\* a year placeholder with l whitespace characters before and r after "year"
Placeholder(l, r) ==
    <<"{", "{">> \o Rep(" ", l) \o <<"year">> \o Rep(" ", r) \o <<"}", "}">>

YearChunks ==
    {<<"a">>, <<" ">>, <<"{">>, <<"}">>, <<"year">>, <<"{", "{", "\n", "year", " ", "}", "}">>}
        \cup {Placeholder(l, r) : l \in 0..MaxPad, r \in 0..MaxPad}

\* the placeholders replace_year is written for: one or two whitespace
\* characters on each side of "year"
IsNarrowPlaceholder(c) ==
    /\ Len(c) >= 7
    /\ c[1] = "{" /\ c[2] = "{"
    /\ \E l \in 1..2, r \in 1..2 :
          /\ Len(c) = l + r + 5
          /\ \A j \in 3..(2 + l) : c[j] \in WS
          /\ c[3 + l] = "year"
          /\ \A j \in (4 + l)..(3 + l + r) : c[j] \in WS
          /\ c[Len(c) - 1] = "}" /\ c[Len(c)] = "}"

YearInit ==
    /\ TextIdle
    /\ NotTextIdle

YearAppend ==
    /\ UNCHANGED notText
    /\ calls = 0
    /\ Len(expect) < MaxYearChunks
    /\ \E c \in YearChunks :
          /\ text' = text \o c
          /\ expect' = Append(expect, IF IsNarrowPlaceholder(c) THEN year ELSE c)
    /\ UNCHANGED <<out, calls, footnotes, plaintext>>

YearCall ==
    /\ UNCHANGED notText
    /\ calls = 0
    /\ out' = replace_year(text)
    /\ calls' = 1
    /\ UNCHANGED <<text, expect, footnotes, plaintext>>

YearNext == YearAppend \/ YearCall

SpecYear == YearInit /\ [][YearNext]_vars

\* a year placeholder with any spacing inside the braces
AnyYearPlaceholder ==
    <<Lit("{"), Lit("{"), Cls(WS, 0, MaxPad + 2, TRUE), Lit("year"),
      Cls(WS, 0, MaxPad + 2, TRUE), Lit("}"), Lit("}")>>

\* C4 as stated: after replace_year no year placeholder, with any spacing
\* inside the braces, remains in the text.
C4_AnySpacingReplaced ==
    calls = 1 => finditer(AnyYearPlaceholder, out) = <<>>

\* C4, amended: replace_year replaces every placeholder that has one or two
\* whitespace characters on each side of "year" by the current year, none of
\* those remains, and the rest of the text is unchanged.
C4_NarrowPlaceholdersReplaced ==
    calls = 1 =>
        /\ out = Flatten(expect)
        /\ finditer(_year_pattern, out) = <<>>

C4_Witness ==
    /\ calls = 1
    /\ \E i \in 1..Len(expect) : expect[i] = year
    /\ \E i \in 1..Len(expect) : expect[i] = Placeholder(0, 0)
    /\ Len(expect) = MaxYearChunks

(***************************************************************************)
(* LicenseContent.transform_text_to_footnotes                              *)
(***************************************************************************)
Digit(n) ==
    CASE n = 0 -> "0" [] n = 1 -> "1" [] n = 2 -> "2" [] n = 3 -> "3"
      [] n = 4 -> "4" [] n = 5 -> "5" [] n = 6 -> "6" [] n = 7 -> "7"
      [] n = 8 -> "8" [] n = 9 -> "9" [] OTHER -> "many"

Citations == {"(1)", "(2)", "(3)"}
ItemNumbers == {"1.", "2.", "3."}
Marker == "{ .annotate }"

\* the lexemes of the annotation texts: what "." of re.DOTALL ranges over
NoteLexemes ==
    Citations \cup ItemNumbers \cup WS
        \cup {Marker, "(4)", "a", "x", "y", "z", "[^", "]", ":"}
        \cup {Digit(n) : n \in 0..10}

_annotation_pattern ==
    <<Cls(Citations, 1, 1, TRUE), Cls(NoteLexemes, 0, -1, FALSE), Lit(Marker),
      Cls(WS, 1, 4, TRUE), Cls(ItemNumbers, 1, 1, TRUE), Cls(WS, 1, 2, TRUE),
      Cls(NoteLexemes, 1, -1, FALSE), Lit("\n")>>

\* the position of the group "annotation" in _annotation_pattern
AnnotationGroup == 7

\* a footnote list that outlives the call
footnotes_kept == footnotes

\* footnotes = []
footnotes_new == <<>>

FootnoteRef(n) == <<"[^", Digit(n), "]">>
FootnoteDef(n, note) == FootnoteRef(n) \o <<":", " ">> \o note \o <<"\n", "\n">>

\* the text returned, and the footnote list at the end of the call
transform_text_to_footnotes(txt) ==
    LET \* the text with its references and, below it, the footnotes
        with_defs(transformed, all) ==
            [text |-> transformed
                        \o (IF all = <<>> THEN <<>>
                            ELSE <<"\n", "\n">>
                                    \o Flatten([i \in 1..Len(all) |->
                                                   FootnoteDef(i, all[i])]))
                        \o <<"\n", "\n">>,
             footnotes |-> all]
        \* replacement(match), called once per match, in order
        replaced(ms, start) ==
            with_defs(SubFrom(txt, ms,
                              [n \in 1..Len(ms) |-> FootnoteRef(Len(start) + n)],
                              1, 1),
                      start \o [n \in 1..Len(ms) |->
                                  strip(Group(txt, ms[n], AnnotationGroup))])
    IN  replaced(finditer(_annotation_pattern, txt), footnotes_new)

\* an annotated paragraph: a citation, the rest of the paragraph, the marker,
\* and the numbered annotation
Block(cit, rest, gap, num, pad, note) ==
    <<cit>> \o rest \o <<Marker>> \o gap \o <<num>> \o pad \o note \o <<"\n">>

NoteBlocks ==
    { [chunk |-> Block("(1)", <<"\n">>, <<"\n", "\n">>, "1.", <<" ", " ">>, <<"x">>),
       note |-> <<"x">>],
      [chunk |-> Block("(1)", <<" ", "a", "\n">>, <<"\n">>, "1.", <<" ">>, <<"y", " ", "z", " ">>),
       note |-> <<"y", " ", "z">>],
      [chunk |-> Block("(2)", <<" ", "a", "\n">>, <<"\n", "\n">>, "2.", <<" ">>, <<"z">>),
       note |-> <<"z">>],
      \* two citations in one paragraph and two annotations below it
      [chunk |-> <<"(1)", " ", "(2)", "\n", Marker, "\n", "\n",
                   "1.", " ", "x", "\n", "2.", " ", "y", "\n">>,
       note |-> <<"x">>] }

\* text that is no annotated paragraph, however the pieces are combined: a
\* citation nothing annotates, a marker no numbered list follows, a numbered
\* list under no marker
NotePlain == {<<"(2)", " ">>, <<Marker, " ", "a", "\n">>, <<"1.", " ", "a", "\n">>}

NoteInit ==
    /\ TextIdle
    /\ NotTextIdle

\* the author writes an annotated paragraph
NoteAppendBlock ==
    /\ UNCHANGED notText
    /\ out = <<>>
    /\ Len(expect) < MaxNoteChunks
    /\ \E b \in NoteBlocks :
          /\ text' = text \o b.chunk
          /\ expect' = Append(expect, b.note)
    /\ UNCHANGED <<out, calls, footnotes, plaintext>>

\* the author writes text that holds no annotated paragraph
NoteAppendPlain ==
    /\ UNCHANGED notText
    /\ out = <<>>
    /\ Len(expect) < MaxNoteChunks
    /\ \E c \in NotePlain :
          /\ text' = text \o c
          /\ expect' = Append(expect, <<>>)
    /\ UNCHANGED <<out, calls, footnotes, plaintext>>

\* calls: 0 before the first call, 1 after it, 2 after any later call
NoteCall ==
    /\ UNCHANGED notText
    /\ out = <<>>
    /\ \E r \in {transform_text_to_footnotes(text)} :
          /\ out' = r.text
          /\ footnotes' = r.footnotes
    /\ calls' = IF calls = 0 THEN 1 ELSE 2
    /\ UNCHANGED <<text, expect, plaintext>>

\* the next text to transform
NoteNewText ==
    /\ UNCHANGED notText
    /\ out # <<>>
    /\ text' = <<>>
    /\ expect' = <<>>
    /\ out' = <<>>
    /\ UNCHANGED <<calls, footnotes, plaintext>>

NoteNext == NoteAppendBlock \/ NoteAppendPlain \/ NoteCall \/ NoteNewText

SpecNotes == NoteInit /\ [][NoteNext]_vars

\* the annotations of the paragraphs the author wrote, in order
Notes == SelectSeq(expect, LAMBDA n : n # <<>>)

\* the numbers of the footnote references of a text, in order of appearance,
\* the reference definitions not counted
RECURSIVE RefNumbers(_, _)
RefNumbers(t, i) ==
    IF i + 2 > Len(t) THEN <<>>
    ELSE IF t[i] = "[^" /\ t[i + 2] = "]" /\ ~(i + 3 <= Len(t) /\ t[i + 3] = ":")
         THEN <<t[i + 1]>> \o RefNumbers(t, i + 3)
         ELSE RefNumbers(t, i + 1)

DefCount(t) == Cardinality({i \in 1..(Len(t) - 3) : t[i] = "[^" /\ t[i + 3] = ":"})

ExpectedDefs ==
    IF Notes = <<>> THEN <<>>
    ELSE <<"\n", "\n">>
            \o Flatten([i \in 1..Len(Notes) |->
                   <<"[^", Digit(i), "]", ":", " ">> \o Notes[i] \o <<"\n", "\n">>])

EndsWith(t, s) == Len(s) <= Len(t) /\ Slice(t, Len(t) - Len(s) + 1, Len(t)) = s

SplitLines(s, cur) ==
    LET t == cur \o s
        breaks == SelectSeq([i \in 1..Len(t) |-> i], LAMBDA i : t[i] = "\n")
        ends == Append(breaks, Len(t) + 1)
    IN  [n \in 1..Len(ends) |->
            Slice(t, IF n = 1 THEN 1 ELSE ends[n - 1] + 1, ends[n] - 1)]

JoinLines(ls) ==
    IF Len(ls) = 0 THEN <<>>
    ELSE Concat(ls, 1, Len(ls) - 1, <<"\n">>) \o ls[Len(ls)]

Indent(line) == Run({" "}, line, 1, 0, Len(line))

IsBlank(line) == Indent(line) = Len(line)

SetMin(S) == CHOOSE x \in S : \A y \in S : x <= y

dedent(s) ==
    LET \* the common leading whitespace of the lines that are not blank
        margin(full) == IF full = {} THEN 0 ELSE SetMin(full)
        without(ls, n) ==
            JoinLines([i \in 1..Len(ls) |->
                          IF IsBlank(ls[i]) THEN <<>>
                          ELSE Slice(ls[i], n + 1, Len(ls[i]))])
        of_lines(ls) ==
            without(ls, margin({Indent(ls[i]) :
                                   i \in {j \in 1..Len(ls) : ~IsBlank(ls[j])}}))
    IN  of_lines(SplitLines(s, <<>>))

(***************************************************************************)
(* LicenseContent.process_definitions                                      *)
(***************************************************************************)
\* a backtick-quoted term is one lexeme; "~" stands for the backtick
Terms == {"~t~", "~u~"}

\* term with its backticks removed
Unquoted(term) == IF term = "~t~" THEN "t" ELSE IF term = "~u~" THEN "u" ELSE term

\* [\w\s]
WordOrSpace == WS \cup {"a", "d", "e", "t", "u"}

\* { .class }
ClassAttributes == {Marker, "{.x}"}

_definition_pattern ==
    <<Cls(Terms, 1, 1, TRUE), Cls(WS, 0, -1, FALSE), Cls({"\n"}, 1, 2, TRUE),
      Lit(":"), Cls(WS, 1, 4, TRUE), Cls(WordOrSpace, 1, -1, TRUE),
      Cls({"\n"}, 2, 2, TRUE)>>

TermGroup == 1
DefGroup == 6

\* a replacement that keeps the description-list form
definition_list_replacement(term, def_text, plain) ==
    IF plain
    THEN <<"\n">> \o dedent(<<Unquoted(term), " ", "-", " ">> \o def_text) \o <<"\n">>
    ELSE <<"\n">> \o dedent(<<term, "\n", ":", " ">> \o def_text) \o <<"\n">>

definition_replacement(term, def_text, plain) ==
    IF plain
    THEN <<"\n">> \o dedent(<<Unquoted(term), " ", "-", " ">> \o def_text) \o <<"\n">>
    ELSE <<"\n">> \o dedent(<<term, ":", "\n">> \o def_text) \o <<"\n">>

\* for match in matches: text = text.replace(match.group(0), replacement)
RECURSIVE ReplaceDefinitions(_, _, _, _, _)
ReplaceDefinitions(orig, ms, n, txt, plain) ==
    IF n > Len(ms) THEN txt
    ELSE ReplaceDefinitions(orig, ms, n + 1,
            replace(txt, MatchText(orig, ms[n]),
                    definition_replacement(Group(orig, ms[n], TermGroup)[1],
                                           Group(orig, ms[n], DefGroup), plain)),
            plain)

process_definitions(txt, plain) ==
    LET ms == finditer(_definition_pattern, txt)
        replaced == ReplaceDefinitions(txt, ms, 1, txt, plain)
    IN  SelectSeq(replaced, LAMBDA tok : tok \notin ClassAttributes)

\* a definition block: the term, the line break, ": " and the definition,
\* ended by a blank line
DefBlocks ==
    { [chunk |-> <<"~t~", "\n", "\n", ":", " ", " ", " ", "d", " ", "e", "\n", "\n">>,
       term |-> "~t~", def |-> <<"d", " ", "e">>],
      [chunk |-> <<"~u~", "\n", ":", " ", "e", "\n", "\n">>,
       term |-> "~u~", def |-> <<"e">>],
      [chunk |-> <<"~t~", " ", "\n", ":", " ", "d", "\n", " ", "e", "\n", "\n">>,
       term |-> "~t~", def |-> <<"d", "\n", " ", "e">>] }

\* other text: a paragraph of words, a sentence, a class attribute, and a
\* definition that holds punctuation
DefPlain ==
    { <<"e", "\n", "\n">>, <<"a", ".", "\n">>, <<Marker, "\n">>,
      <<"~u~", "\n", ":", " ", "d", ".", "\n", "\n">> }

NoTerm == [term |-> "", def |-> <<>>]

DefInit ==
    /\ TextIdle
    /\ NotTextIdle

DefAppendBlock ==
    /\ UNCHANGED notText
    /\ calls = 0
    /\ Len(expect) < MaxDefChunks
    /\ \E b \in DefBlocks :
          /\ text' = text \o b.chunk
          /\ expect' = Append(expect, [term |-> b.term, def |-> b.def])
    /\ UNCHANGED <<out, calls, footnotes, plaintext>>

DefAppendPlain ==
    /\ UNCHANGED notText
    /\ calls = 0
    /\ Len(expect) < MaxDefChunks
    /\ \E c \in DefPlain :
          /\ text' = text \o c
          /\ expect' = Append(expect, NoTerm)
    /\ UNCHANGED <<out, calls, footnotes, plaintext>>

DefCall ==
    /\ UNCHANGED notText
    /\ calls = 0
    /\ \E p \in BOOLEAN :
          /\ plaintext' = p
          /\ out' = process_definitions(text, p)
    /\ calls' = 1
    /\ UNCHANGED <<text, expect, footnotes>>

DefNext == DefAppendBlock \/ DefAppendPlain \/ DefCall

SpecDefs == DefInit /\ [][DefNext]_vars

\* the definition blocks the author wrote
WrittenDefs == SelectSeq(expect, LAMBDA e : e.term # "")

S(lexemes) == [str |-> lexemes]
D(f) == [dict |-> f]
L(items) == [list |-> items]
O(name) == [other |-> name]

IsStr(v) == "str" \in DOMAIN v
IsDict(v) == "dict" \in DOMAIN v
IsList(v) == "list" \in DOMAIN v

\* bool(v)
Truthy(v) ==
    IF IsStr(v) THEN v.str # <<>>
    ELSE IF IsDict(v) THEN DOMAIN v.dict # {}
    ELSE IF IsList(v) THEN v.list # <<>>
    ELSE v.other \notin {"None", "False", "0"}

\* d.get(k, default)
Get(d, k, default) == IF k \in DOMAIN d THEN d[k] ELSE default

\* a | b
Merge(a, b) ==
    [k \in DOMAIN a \cup DOMAIN b |-> IF k \in DOMAIN b THEN b[k] ELSE a[k]]

(***************************************************************************)
(* clean_content                                                           *)
(***************************************************************************)
RECURSIVE cleaner(_)
cleaner(value) ==
    IF IsDict(value) THEN D([k \in DOMAIN value.dict |-> cleaner(value.dict[k])])
    ELSE IF IsList(value)
         THEN L([i \in 1..Len(value.list) |-> cleaner(value.list[i])])
         ELSE IF IsStr(value) THEN S(strip(value.str)) ELSE value

\* clean_content stripping the strings of the mapping itself only
clean_content_shallow(content) ==
    [k \in DOMAIN content |->
        IF ~Truthy(content[k]) THEN S(<<>>)
        ELSE IF IsStr(content[k]) THEN S(strip(content[k].str)) ELSE content[k]]

clean_content(content) ==
    [k \in DOMAIN content |->
        IF Truthy(content[k]) THEN cleaner(content[k]) ELSE S(<<>>)]

(***************************************************************************)
(* jinja2: Template(value).render with the context, for templates that hold *)
(* variables {{ name }} only.  "{%" opens a block no lexeme of the model   *)
(* closes: compiling such a template raises TemplateSyntaxError.           *)
(***************************************************************************)
TemplateVariables == {"year", "plain_name", "PLAIN_NAME"}

VariablePattern(name) ==
    <<Lit("{"), Lit("{"), Cls(WS, 0, -1, TRUE), Lit(name),
      Cls(WS, 0, -1, TRUE), Lit("}"), Lit("}")>>

TemplateRaises(lexemes) == \E i \in 1..Len(lexemes) : lexemes[i] = "{%"

\* str(value) of a context value
Show(v) == IF IsStr(v) THEN v.str ELSE <<"<object>">>

RECURSIVE RenderFrom(_, _, _)
RenderFrom(txt, context, i) ==
    LET hit(j) == {n \in TemplateVariables :
                      MatchFrom(VariablePattern(n), 1, txt, j) # <<>>}
        starts == {j \in i..Len(txt) : txt[j] = "{" /\ hit(j) # {}}
        first == CHOOSE j \in starts : \A n \in starts : j <= n
        n == CHOOSE n \in hit(first) : TRUE
        m == MatchFrom(VariablePattern(n), 1, txt, first)
    IN  IF starts = {} THEN Slice(txt, i, Len(txt))
        ELSE Slice(txt, i, first - 1)
                \o (IF n \in DOMAIN context THEN Show(context[n]) ELSE <<>>)
                \o RenderFrom(txt, context, MatchEnd(m))

\* the lexer drops one trailing line break of the template source
Render(txt, context) ==
    RenderFrom(IF txt # <<>> /\ txt[Len(txt)] = "\n"
               THEN Slice(txt, 1, Len(txt) - 1) ELSE txt,
               context, 1)

(***************************************************************************)
(* render_mapping: [raised, val, logged].  raised: the call ended in an    *)
(* exception; val: the mapping returned; logged: the number of errors      *)
(* written to the log.                                                     *)
(***************************************************************************)
RECURSIVE SumOver(_, _)
SumOver(f, keys) ==
    IF keys = {} THEN 0
    ELSE LET k == CHOOSE k \in keys : TRUE IN f[k] + SumOver(f, keys \ {k})

\* a list whose items are rendered one by one, whatever they are
RECURSIVE render_value_itemwise(_, _)
RECURSIVE render_mapping(_, _), render_value(_, _)
render_value_itemwise(value, context) ==
    IF IsStr(value)
    THEN IF TemplateRaises(value.str)
         THEN [raised |-> FALSE, val |-> value, logged |-> 1]
         ELSE [raised |-> FALSE, val |-> S(Render(value.str, context)), logged |-> 0]
    ELSE IF IsDict(value)
    THEN LET r == render_mapping(value.dict, context)
         IN  [raised |-> r.raised, val |-> D(r.val), logged |-> r.logged]
    ELSE IF IsList(value)
    THEN LET rs == [i \in 1..Len(value.list) |->
                        render_value_itemwise(value.list[i], context)]
         IN  [raised |-> \E i \in 1..Len(rs) : rs[i].raised,
              val |-> L([i \in 1..Len(rs) |-> rs[i].val]),
              logged |-> SumOver([i \in 1..Len(rs) |-> rs[i].logged], 1..Len(rs))]
    ELSE [raised |-> FALSE, val |-> value, logged |-> 0]

render_value(value, context) ==
    IF IsStr(value)
    THEN IF TemplateRaises(value.str)
         THEN [raised |-> FALSE, val |-> value, logged |-> 1]
         ELSE [raised |-> FALSE, val |-> S(Render(value.str, context)), logged |-> 0]
    ELSE IF IsDict(value)
    THEN LET r == render_mapping(value.dict, context)
         IN  [raised |-> r.raised, val |-> D(r.val), logged |-> r.logged]
    ELSE IF IsList(value)
    THEN \* render_mapping(item, context) calls item.items(): an item that is
         \* no dict raises AttributeError
         LET rs == [i \in 1..Len(value.list) |->
                        IF IsDict(value.list[i])
                        THEN render_mapping(value.list[i].dict, context)
                        ELSE [raised |-> TRUE, val |-> <<>>, logged |-> 0]]
         IN  [raised |-> \E i \in 1..Len(rs) : rs[i].raised,
              val |-> L([i \in 1..Len(rs) |-> D(rs[i].val)]),
              logged |-> SumOver([i \in 1..Len(rs) |-> rs[i].logged], 1..Len(rs))]
    ELSE [raised |-> FALSE, val |-> value, logged |-> 0]

render_mapping(m, context) ==
    LET rs == [k \in DOMAIN m |-> render_value(m[k], context)]
    IN  [raised |-> \E k \in DOMAIN m : rs[k].raised,
         val |-> [k \in DOMAIN m |-> rs[k].val],
         logged |-> SumOver([k \in DOMAIN m |-> rs[k].logged], DOMAIN m)]

(***************************************************************************)
(* Calls of render_mapping and clean_content on mappings of up to MaxKeys  *)
(* keys.                                                                   *)
(***************************************************************************)
KeyName(i) ==
    CASE i = 1 -> "k1" [] i = 2 -> "k2" [] i = 3 -> "k3" [] i = 4 -> "k4"
      [] OTHER -> "k5"

KeyNames == {KeyName(i) : i \in 1..MaxKeys}

YearTemplate == <<"{", "{", " ", "year", " ", "}", "}">>
BadTemplate == <<"{%", " ", "year">>

SampleValues ==
    { S(<<"x">>), S(<<" ", "x", " ">>), S(YearTemplate), S(BadTemplate), S(<<>>),
      D([inner |-> S(YearTemplate)]), D([inner |-> S(BadTemplate)]),
      L(<<D([inner |-> S(YearTemplate)])>>), L(<<S(YearTemplate)>>),
      L(<<O("None"), S(<<" ", "x">>)>>), L(<<>>),
      O("None"), O("7") }

RenderContext == [year |-> S(year), plain_name |-> S(<<"MIT">>)]

RenderInit ==
    /\ RenderIdle
    /\ NotRenderIdle

\* the caller adds a key to the mapping
PutKey ==
    /\ UNCHANGED notRender
    /\ ~result.called
    /\ \E k \in KeyNames \ DOMAIN mapping, v \in SampleValues :
          mapping' = Merge(mapping, [x \in {k} |-> v])
    /\ UNCHANGED result

CallRenderMapping ==
    /\ UNCHANGED notRender
    /\ ~result.called
    /\ LET r == render_mapping(mapping, RenderContext)
       IN  result' = [called |-> TRUE, fn |-> "render_mapping", raised |-> r.raised,
                      val |-> IF r.raised THEN <<>> ELSE r.val,
                      logged |-> r.logged]
    /\ UNCHANGED mapping

CallCleanContent ==
    /\ UNCHANGED notRender
    /\ ~result.called
    /\ result' = [called |-> TRUE, fn |-> "clean_content", raised |-> FALSE,
                  val |-> clean_content(mapping), logged |-> 0]
    /\ UNCHANGED mapping

RenderNext == PutKey \/ CallRenderMapping \/ CallCleanContent

SpecRender == RenderInit /\ [][RenderNext]_vars

Rendered == result.called /\ result.fn = "render_mapping"

\* a string value whose template fails
FailsToRender(v) == IsStr(v) /\ TemplateRaises(v.str)

\* C9: when the template of one string value fails, the error is logged, the
\* key keeps its unrendered value, every other key is rendered, and
\* render_mapping returns normally with the key set of its input.
C9_FailedTemplateKept ==
    (Rendered /\ \E k \in DOMAIN mapping : FailsToRender(mapping[k])) =>
        /\ ~result.raised
        /\ result.logged >= 1
        /\ DOMAIN result.val = DOMAIN mapping
        /\ \A k \in DOMAIN mapping :
              FailsToRender(mapping[k]) => result.val[k] = mapping[k]

(***************************************************************************)
(* dict and Counter keep their keys in insertion order: an ordered mapping *)
(* is a sequence of entries [k, v] with distinct keys.                     *)
(***************************************************************************)
Keys(d) == {d[i].k : i \in 1..Len(d)}
Has(d, key) == key \in Keys(d)
At(d, key) == CHOOSE i \in 1..Len(d) : d[i].k = key
Value(d, key) == d[At(d, key)].v

\* d[key] = val
Put(d, key, val) ==
    IF Has(d, key)
    THEN [i \in 1..Len(d) |-> IF d[i].k = key THEN [k |-> key, v |-> val] ELSE d[i]]
    ELSE Append(d, [k |-> key, v |-> val])

\* Counter(words): keys in the order of their first occurrence
RECURSIVE Counter(_)
Counter(words) ==
    IF words = <<>> THEN <<>>
    ELSE LET front == Counter(Slice(words, 1, Len(words) - 1))
             w == words[Len(words)]
         IN  Put(front, w, IF Has(front, w) THEN Value(front, w) + 1 ELSE 1)

\* Counter.update(other): the counts of other are added
RECURSIVE CounterUpdate(_, _)
CounterUpdate(c, other) ==
    IF other = <<>> THEN c
    ELSE LET e == Head(other)
             old == IF Has(c, e.k) THEN Value(c, e.k) ELSE 0
         IN  CounterUpdate(Put(c, e.k, old + e.v), Tail(other))

\* sum(counter.values())
RECURSIVE SumValues(_)
SumValues(d) == IF d = <<>> THEN 0 ELSE Head(d).v + SumValues(Tail(d))

\* dict(sorted(d.items(), key=lambda item: item[1], reverse=True)): the sort
\* is stable, entries of equal value keep their order
RECURSIVE SortedByValue(_)
SortedByValue(d) ==
    IF d = <<>> THEN <<>>
    ELSE LET top == CHOOSE i \in 1..Len(d) :
                        /\ \A j \in 1..Len(d) : d[j].v <= d[i].v
                        /\ \A j \in 1..(i - 1) : d[j].v < d[i].v
         IN  <<d[top]>> \o SortedByValue(Slice(d, 1, top - 1) \o Slice(d, top + 1, Len(d)))

(***************************************************************************)
(* Status, the singleton of _utils, and is_license_page, which reads it.   *)
(* No hook constructs Status: it exists once something has called          *)
(* Status(cmd).                                                            *)
(***************************************************************************)
\* Status(cmd): __new__ makes the instance while there is none, __init__
\* returns at once when _initialized is set.  The fields command and
\* _production of the object are read by no hook (license_factory reads
\* Status.production off the class) and are left out.
Status_init(st) == IF st.made THEN st ELSE [made |-> TRUE]

CallStatus ==
    /\ UNCHANGED notStatus
    /\ status' = Status_init(status)

\* is_license_page(page) for a page with this name (the last directory of
\* its url, "" for a url of fewer than two directories): [raised, value].
\* Reading expected_licenses of None raises AttributeError.
is_license_page(st, name, expected) ==
    IF name = "" THEN [raised |-> FALSE, value |-> FALSE]
    ELSE IF ~st.made THEN [raised |-> TRUE, value |-> FALSE]
    ELSE [raised |-> FALSE, value |-> name \in expected]

(***************************************************************************)
(* ShameCounter                                                            *)
(***************************************************************************)
\* of STOPWORDS, the words the model's license texts use
STOPWORDS == {"the", "will"}

\* str.lower() on the words of the model
Lower(w) ==
    CASE w = "Shall" -> "shall" [] w = "Will" -> "will" [] w = "MIT" -> "mit"
      [] w = "GPL" -> "gpl" [] w = "A" -> "a" [] OTHER -> w

\* config["extra"]["shame_words"]: the configurations of the model
ShameConfigs ==
    { <<[k |-> "Shall", v |-> "must"], [k |-> "hereby", v |-> "now"]>>,
      <<[k |-> "will", v |-> "must"], [k |-> "shall", v |-> ""]>>,
      <<>> }

\* {k.strip().lower(): v.strip().lower() for k, v in ... if k and v}
RECURSIVE LoweredMap(_)
LoweredMap(es) ==
    IF es = <<>> THEN <<>>
    ELSE Put(LoweredMap(Slice(es, 1, Len(es) - 1)),
             Lower(es[Len(es)].k), Lower(es[Len(es)].v))

ShameMapOf(shame_words) ==
    LoweredMap(SelectSeq(shame_words, LAMBDA e : e.k # "" /\ e.v # ""))

FieldsOf(m, counts, total, rs, ts) ==
    [shame_map |-> m, shame_counts |-> counts, total_counts |-> total,
     ratios |-> rs, totals |-> ts]

Fields == FieldsOf(shame_map, shame_counts, total_counts, ratios, totals)

\* __init__ without its guard on _instantiated
ShameCounter_init_unguarded(fields, instantiated, config) ==
    FieldsOf(ShameMapOf(config), <<>>, <<>>, <<>>, <<>>)

\* __init__: the fields of the instance after the call
ShameCounter_init(fields, instantiated, config) ==
    IF instantiated THEN fields
    ELSE FieldsOf(ShameMapOf(config), <<>>, <<>>, <<>>, <<>>)

\* sort_all without its sort of the counters of the licenses
sort_all_but_licenses(f) ==
    [f EXCEPT !.total_counts = SortedByValue(f.total_counts),
              !.ratios = SortedByValue(f.ratios),
              !.totals = SortedByValue(f.totals)]

\* sort_all
sort_all(f) ==
    [f EXCEPT !.total_counts = SortedByValue(f.total_counts),
              !.shame_counts = [i \in 1..Len(f.shame_counts) |->
                                   [k |-> f.shame_counts[i].k,
                                    v |-> SortedByValue(f.shame_counts[i].v)]],
              !.ratios = SortedByValue(f.ratios),
              !.totals = SortedByValue(f.totals)]

\* shame_count returning the counter of the first license counted
shame_count_first(f, license_name) ==
    IF f.shame_counts = <<>> THEN <<>> ELSE f.shame_counts[1].v

\* shame_count(license_name)
shame_count(f, license_name) ==
    IF Has(f.shame_counts, license_name) THEN Value(f.shame_counts, license_name)
    ELSE <<>>

\* stopwords
stopwords(f) == {w \in STOPWORDS : ~Has(f.shame_map, w)}

\* re.findall(r"\b\w+\b", strip_markdown(text).lower().replace("\n", " "))
WordsOf(license_text) ==
    LET kept == SelectSeq(license_text, LAMBDA w : w \notin {"**", "*", "#", "\n", " "})
    IN  [i \in 1..Len(kept) |-> Lower(kept[i])]

\* round(sum / len * 100, 2), in hundredths of a percent
Ratio(sum, len) == (sum * 20000 + len) \div (2 * len)

NoMetaUpdate == [shame_counts |-> <<>>, shame_total |-> 0, shame_ratio |-> 0]

\* the body of on_page_markdown for a license page, on the fields f of the
\* instance: the fields after it, whether it raised, what it wrote to
\* page.meta, and the fields as they were when sort_all was called (counted)
count_shame_words(f, page) ==
    LET license_name == page.original_name
        filtered_words == SelectSeq(WordsOf(page.official_license_text),
                                    LAMBDA w : w \notin stopwords(f))
        word_count == Counter(SelectSeq(filtered_words,
                                        LAMBDA w : Has(f.shame_map, w)))
        counted ==
            IF word_count = <<>> THEN f
            ELSE [f EXCEPT
                    !.shame_counts = Put(@, license_name, word_count),
                    !.total_counts = CounterUpdate(@, word_count),
                    !.ratios = Put(@, license_name,
                                   IF Len(filtered_words) # 0
                                   THEN Ratio(SumValues(word_count), Len(filtered_words))
                                   ELSE 0),
                    !.totals = Put(@, license_name, SumValues(word_count))]
    IN  IF license_name = "" \/ page.official_license_text = <<>>
        THEN [fields |-> f, raised |-> FALSE, updated |-> FALSE, meta |-> NoMetaUpdate,
              counted |-> f]
        ELSE IF ~Has(counted.totals, license_name)
        THEN [fields |-> counted, raised |-> TRUE, updated |-> FALSE,
              meta |-> NoMetaUpdate, counted |-> counted]
        ELSE [fields |-> sort_all(counted), raised |-> FALSE, updated |-> TRUE,
              counted |-> counted,
              meta |-> [shame_counts |-> shame_count(counted, license_name),
                        shame_total |-> Value(counted.totals, license_name),
                        shame_ratio |-> Value(counted.ratios, license_name)]]

SetFields(f) ==
    /\ shame_map' = f.shame_map
    /\ shame_counts' = f.shame_counts
    /\ total_counts' = f.total_counts
    /\ ratios' = f.ratios
    /\ totals' = f.totals

\* the pages of the site as the shame counter sees them; an absent meta key
\* is the empty value
\* Status.expected_licenses of the site of these pages
ShameExpected == {"mit", "gpl"}

ShamePages ==
    { [page_name |-> "faq", original_name |-> "MIT", official_license_text |-> <<"Shall">>],
      [page_name |-> "", original_name |-> "", official_license_text |-> <<>>],
      [page_name |-> "mit", original_name |-> "", official_license_text |-> <<"Shall">>],
      [page_name |-> "mit", original_name |-> "MIT", official_license_text |-> <<>>],
      [page_name |-> "mit", original_name |-> "MIT",
       official_license_text |->
           <<"the", " ", "code", " ", "hereby", "\n", "**", "Shall", "**", " ", "shall">>],
      [page_name |-> "mit", original_name |-> "MIT",
       official_license_text |-> <<"hereby", " ", "Will">>],
      [page_name |-> "gpl", original_name |-> "GPL",
       official_license_text |-> <<"the", " ", "code">>],
      [page_name |-> "gpl", original_name |-> "GPL",
       official_license_text |->
           <<"hereby", " ", "hereby", " ", "will", " ", "code">>] }

ShameInit ==
    /\ ShameIdle
    /\ NotShameIdle

\* ShameCounter(config): __new__, then __init__ on the object __new__ returned
Construct(config) ==
    /\ _instance' = (IF _instance = 0 THEN objects + 1 ELSE _instance)
    /\ objects' = (IF _instance = 0 THEN objects + 1 ELSE objects)
    /\ SetFields(ShameCounter_init(Fields, _instantiated, config))
    /\ _instantiated' = TRUE

CallShameCounter ==
    /\ UNCHANGED notShame
    /\ UNCHANGED page_calls
    /\ \E config \in ShameConfigs :
          /\ Construct(config)
          /\ last' = [op |-> "ShameCounter", ret |-> _instance', config |-> config]

\* ShameCounter.instance()
CallInstance ==
    /\ UNCHANGED notShame
    /\ UNCHANGED <<_instance, _instantiated, objects, shameFields, page_calls>>
    /\ last' = [op |-> "instance", ret |-> _instance]

\* on_config(config)
on_config ==
    /\ UNCHANGED notShame
    /\ UNCHANGED page_calls
    /\ \E config \in ShameConfigs :
          /\ IF _instance = 0 THEN Construct(config)
             ELSE UNCHANGED <<_instance, _instantiated, objects, shameFields>>
          /\ last' = [op |-> "on_config", config |-> config]

\* on_page_markdown(markdown, page, config, files)
on_page_markdown ==
    /\ UNCHANGED notShame
    /\ page_calls < MaxPageCalls
    /\ page_calls' = page_calls + 1
    /\ \E page \in ShamePages, config \in ShameConfigs :
          LET is_license == is_license_page(status, page.page_name, ShameExpected)
          IN  IF is_license.raised \/ ~is_license.value
              THEN /\ UNCHANGED <<_instance, _instantiated, objects, shameFields>>
                   /\ last' = [op |-> "on_page_markdown", page |-> page,
                               raised |-> is_license.raised,
                               error |-> IF is_license.raised
                                         THEN "AttributeError" ELSE "",
                               updated |-> FALSE, meta |-> NoMetaUpdate]
              ELSE LET shamer == IF _instance = 0
                                 THEN ShameCounter_init(Fields, _instantiated, config)
                                 ELSE Fields
                       r == count_shame_words(shamer, page)
                   IN  /\ _instance' = (IF _instance = 0 THEN objects + 1 ELSE _instance)
                       /\ objects' = (IF _instance = 0 THEN objects + 1 ELSE objects)
                       /\ _instantiated' = TRUE
                       /\ SetFields(r.fields)
                       /\ last' = [op |-> "on_page_markdown", page |-> page,
                                   raised |-> r.raised,
                                   error |-> IF r.raised THEN "KeyError" ELSE "",
                                   updated |-> r.updated, meta |-> r.meta,
                                   counted |-> r.counted]

ShameNext ==
    \/ CallStatus
    \/ CallShameCounter
    \/ CallInstance
    \/ on_config
    \/ on_page_markdown

SpecShame == ShameInit /\ [][ShameNext]_vars

(***************************************************************************)
(* C7: the shame counts are never reset within a process.  Once a          *)
(* ShameCounter exists, every later ShameCounter(config) call, whatever    *)
(* the config, returns that same instance and leaves shame_map,            *)
(* shame_counts, total_counts, ratios and totals as they were, and         *)
(* ShameCounter.instance() returns that instance.                          *)
(***************************************************************************)
C7_SingletonNeverReset ==
    [][ /\ (_instance # 0 /\ last'.op = "ShameCounter") =>
              /\ last'.ret = _instance
              /\ _instance' = _instance
              /\ objects' = objects
              /\ Fields' = Fields
        /\ (_instance # 0 /\ last'.op = "instance") =>
              /\ last'.ret = _instance
              /\ _instance' = _instance
              /\ Fields' = Fields ]_vars

\* counts were collected, and then ShameCounter was called again with a
\* config whose shame words are not the ones the instance holds
C7_Witness ==
    /\ last.op = "ShameCounter"
    /\ shame_counts # <<>>
    /\ total_counts # <<>>
    /\ ShameMapOf(last.config) # shame_map
    /\ last.ret = _instance

(***************************************************************************)
(* Text helpers of the license assembly.  A text is a sequence of lexemes; *)
(* a space is the lexeme " ", a line break the lexeme "\n", a word is one  *)
(* lexeme.  The lines of the model's texts are shorter than 70 characters. *)
(***************************************************************************)
\* \w+ : the words of the model's texts
Words == {"a", "d", "e", "t", "u", "x", "y", "z", "A", "MIT", "mit", "GPL"}

\* . without re.DOTALL: anything but a line break
NotNewline(txt) == {txt[i] : i \in 1..Len(txt)} \ {"\n"}

\* str.upper() on the words of the model
Upper(w) ==
    CASE w = "a" -> "A" [] w = "mit" -> "MIT" [] w = "x" -> "X"
      [] w = "Interpreting" -> "INTERPRETING" [] w = "plain_name" -> "PLAIN_NAME"
      [] OTHER -> w

UpperAll(txt) == [i \in 1..Len(txt) |-> Upper(txt[i])]

\* textwrap.indent(text, prefix) with a prefix of n spaces: lines that hold
\* only whitespace get no prefix
indent(s, n) ==
    LET of_lines(ls) ==
            JoinLines([i \in 1..Len(ls) |->
                          IF IsBlank(ls[i]) THEN ls[i] ELSE Rep(" ", n) \o ls[i]])
    IN  of_lines(SplitLines(s, <<>>))

\* str.split("\n\n")
RECURSIVE SplitParagraphs(_, _)
SplitParagraphs(s, cur) ==
    IF s = <<>> THEN <<cur>>
    ELSE IF Len(s) >= 2 /\ s[1] = "\n" /\ s[2] = "\n"
         THEN <<cur>> \o SplitParagraphs(Slice(s, 3, Len(s)), <<>>)
         ELSE SplitParagraphs(Tail(s), Append(cur, Head(s)))

JoinParagraphs(ps) ==
    IF Len(ps) = 0 THEN <<>>
    ELSE Concat(ps, 1, Len(ps) - 1, <<"\n", "\n">>) \o ps[Len(ps)]

\* "\n".join(textwrap.wrap(line, width=70, break_long_words=False)) of a
\* line shorter than 70 characters: trailing whitespace is dropped, and a
\* line of whitespace gives nothing
wrapper(line) == IF IsBlank(line) THEN <<>> ELSE rstrip(line)

\* wrap_text: every paragraph goes through the same wrapping, line by line,
\* and the empty lines of a paragraph are dropped
wrap_text(s) ==
    LET wrapped(ls) ==
            JoinLines(SelectSeq([i \in 1..Len(ls) |-> wrapper(ls[i])],
                                LAMBDA l : l # <<>>))
        wrap_paragraph(p) ==
            wrapped(SelectSeq(SplitLines(p, <<>>), LAMBDA l : l # <<>>))
        of_paragraphs(ps) ==
            JoinParagraphs([i \in 1..Len(ps) |-> wrap_paragraph(ps[i])])
    IN  of_paragraphs(SplitParagraphs(s, <<>>))

(***************************************************************************)
(* The patterns of process_mkdocs_to_markdown and                          *)
(* process_markdown_to_plaintext.                                          *)
(***************************************************************************)
\* `{3}markdown  and  `{3}plaintext(.*?)`{3} with re.DOTALL; the fences are
\* the lexemes "~~~markdown", "~~~plaintext" and "~~~"
_code_pattern_markdown == <<Lit("~~~markdown")>>
_code_pattern_plaintext(txt) ==
    <<Lit("~~~plaintext"),
      Cls({txt[i] : i \in 1..Len(txt)}, 0, -1, FALSE), Lit("~~~")>>

\* _code_pattern.sub(r"===\1===", text)
RECURSIVE CodeSubFrom(_, _)
CodeSubFrom(txt, i) ==
    LET at(m) ==
            IF m = <<>> THEN <<txt[i]>> \o CodeSubFrom(txt, i + 1)
            ELSE <<"===">> \o MatchText(txt, m) \o <<"===">>
                    \o CodeSubFrom(txt, MatchEnd(m))
        either(m1) ==
            at(IF m1 # <<>> THEN m1
               ELSE MatchFrom(_code_pattern_plaintext(txt), 1, txt, i))
    IN  IF i > Len(txt) THEN <<>>
        ELSE either(MatchFrom(_code_pattern_markdown, 1, txt, i))

replace_code_blocks(txt) == CodeSubFrom(txt, 1)

\* <h2 class="license-first-header">(.*?)</h2>
_reader_header_pattern(txt) ==
    <<Lit("<h2 class=license-first-header>"),
      Cls(NotNewline(txt), 0, -1, FALSE), Lit("</h2>")>>

\* _reader_header_pattern.sub(r"## \1", text)
reader_header_sub(txt) ==
    LET as_heading(ms) ==
            SubFrom(txt, ms,
                    [n \in 1..Len(ms) |-> <<"#", "#", " ">> \o Group(txt, ms[n], 2)],
                    1, 1)
    IN  as_heading(finditer(_reader_header_pattern(txt), txt))

\* #+ (\w+?)\n
_header_pattern ==
    <<Cls({"#"}, 1, -1, TRUE), Lit(" "), Cls(Words, 1, -1, FALSE), Lit("\n")>>

\* for header in headers: text = text.replace(header.group(0), upper + "\n")
RECURSIVE ReplaceHeaders(_, _, _, _)
ReplaceHeaders(orig, ms, n, txt) ==
    IF n > Len(ms) THEN txt
    ELSE ReplaceHeaders(orig, ms, n + 1,
            replace(txt, MatchText(orig, ms[n]),
                    UpperAll(Group(orig, ms[n], 3)) \o <<"\n">>))

\* _markdown_pattern.sub(r"\2", text) for #+ |(\*\*|\*|`)(.*?)\1 : a run of
\* "#" with its space goes, an emphasis or code span keeps its inside, and a
\* backtick-quoted term, one lexeme, keeps its word
RECURSIVE MarkdownSubFrom(_, _)
MarkdownSubFrom(txt, i) ==
    LET at(hashes, closing) ==
            IF hashes # <<>> THEN MarkdownSubFrom(txt, MatchEnd(hashes))
            ELSE IF txt[i] \in Terms
                 THEN <<Unquoted(txt[i])>> \o MarkdownSubFrom(txt, i + 1)
            ELSE IF txt[i] \in {"**", "*"} /\ closing # {}
                 THEN Slice(txt, i + 1, SetMin(closing) - 1)
                         \o MarkdownSubFrom(txt, SetMin(closing) + 1)
            ELSE <<txt[i]>> \o MarkdownSubFrom(txt, i + 1)
    IN  IF i > Len(txt) THEN <<>>
        ELSE at(MatchFrom(<<Cls({"#"}, 1, -1, TRUE), Lit(" ")>>, 1, txt, i),
                {j \in (i + 1)..Len(txt) :
                    /\ txt[j] = txt[i]
                    /\ \A k \in (i + 1)..(j - 1) : txt[k] # "\n"})

\* \[(.*?)\]\((.*?)\)
_link_pattern(txt) ==
    <<Lit("["), Cls(NotNewline(txt), 0, -1, FALSE), Lit("]"), Lit("("),
      Cls(NotNewline(txt), 0, -1, FALSE), Lit(")")>>

\* !\[(.*?)\]\((.*?)\)
_image_pattern(txt) == <<Lit("!")>> \o _link_pattern(txt)

\* pattern.sub(r"\1 (\2)", text); first is the position of group 1
link_sub(pat, first, txt) ==
    LET as_text(ms) ==
            SubFrom(txt, ms,
                    [n \in 1..Len(ms) |->
                        Group(txt, ms[n], first) \o <<" ", "(">>
                            \o Group(txt, ms[n], first + 3) \o <<")">>],
                    1, 1)
    IN  as_text(finditer(pat, txt))

\* process_markdown_to_plaintext(text)
process_markdown_to_plaintext(markdown_text) ==
    LET \* the steps of the body, last first
        images(txt) == link_sub(_image_pattern(txt), 3, txt)
        links(txt) == link_sub(_link_pattern(txt), 2, txt)
        heads(txt) == ReplaceHeaders(txt, finditer(_header_pattern, txt), 1, txt)
    IN  replace_code_blocks(
            images(links(MarkdownSubFrom(
                heads(process_definitions(markdown_text, TRUE)), 1))))

\* process_mkdocs_to_markdown, on self.reader_license_text
process_mkdocs_to_markdown(reader_text) ==
    process_definitions(
        reader_header_sub(
            transform_text_to_footnotes(replace_code_blocks(reader_text)).text),
        FALSE)

(***************************************************************************)
(* LicenseContent.  The object is the record of its attributes; meta is    *)
(* the mapping self.meta refers to.  Long constant prose is one lexeme per *)
(* line.                                                                   *)
(***************************************************************************)
\* f"{meta.get(key, default)}": the text of a value of the metadata
TextOf(meta, key, default) ==
    IF key \in DOMAIN meta THEN Show(meta[key]) ELSE default

None == <<"None">>

LowerAll(txt) == [i \in 1..Len(txt) |-> Lower(txt[i])]

\* tabify(text, title, level=1, icon)
tabify(txt, title, icon) ==
    <<"===", " ", "'">> \o (IF icon = "" THEN <<>> ELSE <<icon, " ">>)
        \o title \o <<"'", " ", "\n", "\n">> \o indent(dedent(txt), 4) \o <<"\n">>

\* blockify(text, kind, title, separator_count, options) for options that
\* hold strings: every caller passes None or {"type": "license"}
blockify(txt, kind, title, separator_count, options) ==
    LET separator == Rep("/", separator_count)
        option_block ==
            Flatten([i \in 1..Len(options) |->
                        IF options[i].v = "" THEN <<>>
                        ELSE Rep(" ", separator_count + 1)
                                \o <<options[i].k, ":", " ", options[i].v, "\n">>])
    IN  <<"\n">> \o separator \o <<" ", kind, " ", "|", " ">> \o title \o <<"\n">>
            \o option_block \o <<"\n">> \o txt \o <<"\n">> \o separator \o <<"\n">>

LicenseOptions == <<[k |-> "type", v |-> "license"]>>

\* icon_map
icon_map ==
    [reader |-> ":material-book-open-variant:", markdown |-> ":octicons-markdown-24:",
     plaintext |-> ":nounproject-txt:", embed |-> ":material-language-html5:",
     changelog |-> ":material-history:", official |-> ":material-license:"]

\* tag_map
tag_map ==
    [t \in {"distribution", "commercial-use", "modifications", "revokable",
            "relicense", "disclose-source", "document-changes",
            "include-copyright", "same-license", "same-license--file",
            "same-license--library"} |->
        CASE t = "distribution" -> "can-share"
          [] t = "commercial-use" -> "can-sell"
          [] t = "modifications" -> "can-change"
          [] t = "revokable" -> "can-revoke"
          [] t = "relicense" -> "relicense"
          [] t = "disclose-source" -> "share-source"
          [] t = "document-changes" -> "describe-changes"
          [] t = "include-copyright" -> "give-credit"
          [] t = "same-license" -> "share-alike (strict)"
          [] OTHER -> "share-alike (relaxed)"]

\* get_tags: the mapped tags of conditions, permissions and limitations, or
\* None
get_tags(meta) ==
    LET taglist(key) == IF key \in DOMAIN meta /\ IsList(meta[key])
                        THEN meta[key].list ELSE <<>>
        frontmatter_tags ==
            taglist("conditions") \o taglist("permissions") \o taglist("limitations")
        known == SelectSeq(frontmatter_tags,
                           LAMBDA t : IsStr(t) /\ Len(t.str) = 1
                                        /\ t.str[1] \in DOMAIN tag_map)
    IN  IF frontmatter_tags = <<>> THEN O("None")
        ELSE L([i \in 1..Len(known) |-> S(<<tag_map[known[i].str[1]]>>)])

\* get_license_type: "domain" in the page's url or in the category
get_license_type(meta, url) ==
    IF \/ \E i \in 1..Len(url) : url[i] = "public-domain"
       \/ TextOf(meta, "category", <<>>) = <<"public-domain">>
    THEN "dedication" ELSE "license"

(***************************************************************************)
(* The package.json of a license: [exists, name, version]; a version is a  *)
(* text, empty when the key is missing.                                    *)
(***************************************************************************)
NoPackage == [exists |-> FALSE, name |-> "", version |-> <<>>]

\* Status.production as license_factory reads it: the property object of
\* the class, which is true whatever the command
StatusProduction == TRUE

\* get_plain_version returning whatever package.get("version") is
get_plain_version_as_read(package) ==
    IF ~package.exists THEN [version |-> <<"0.0.0">>, package |-> package]
    ELSE [version |-> package.version, package |-> package]

\* get_plain_version on the package.json of the license: the version
\* returned and the package.json after the call
get_plain_version(package) ==
    IF ~package.exists THEN [version |-> <<"0.0.0">>, package |-> package]
    ELSE IF package.version = <<>> THEN [version |-> <<"0.0.0">>, package |-> package]
    ELSE IF (\E i \in 1..Len(package.version) : package.version[i] = "development")
               /\ StatusProduction
         THEN [version |-> <<"0.1.0">>,
               package |-> [package EXCEPT !.version = <<"0.1.0">>]]
         ELSE [version |-> package.version, package |-> package]

\* the lines of an f-string written with n spaces of indentation
Lines(n, ls) ==
    Flatten([i \in 1..Len(ls) |-> Rep(" ", n) \o ls[i] \o <<"\n">>])

\* get_header_block(kind)
get_header_block(lc, kind) ==
    LET original_version == TextOf(lc.meta, "original_version", <<>>)
        original_text ==
            IF original_version = <<>> THEN <<>>
            ELSE <<"original version:", " ">> \o original_version
                    \o <<" ", " ", "|", " ", " ">>
    IN  IF kind = "reader"
        THEN <<"<div class=license-header>", "\n", "<h1 class=license-title>">>
                \o Show(lc.meta["plain_name"]) \o <<"</h1>", "<div class=version-info>">>
                \o (IF original_version = <<>> THEN <<>>
                    ELSE <<"<span class=original_version>", "original version:", " ">>
                            \o original_version \o <<"</span>", "<br />">>)
                \o <<"<span class=plain_version>", "plain version:", " ">>
                \o lc.plain_version \o <<"</span>", "</div>", "</div>">>
        ELSE IF kind = "markdown"
        THEN <<">", " ">> \o original_text \o <<"plain version:", " ">>
                \o lc.plain_version \o <<"\n", "\n", "#", " ">>
                \o TextOf(lc.meta, "plain_name", None)
        ELSE original_text \o <<"plain version:", " ">> \o lc.plain_version
                \o <<"\n", "\n">> \o UpperAll(TextOf(lc.meta, "plain_name", <<>>))

\* not_advice_text
not_advice_text(lc) ==
    dedent(Lines(12,
        << <<"We are not lawyers.">>,
           <<"If you see a mistake,", " ", "[", "submit an issue", "]", "(">>
               \o TextOf(lc.meta, "github_issues_link", None)
               \o <<")", " ", "or", " ", "[", "edit this page", "]", "(">>
               \o TextOf(lc.meta, "github_edit_link", None) \o <<")", ".">> >>)
        \o Rep(" ", 12))

\* the keys not_official_text reads with meta[key]
OfficialKeys == <<"original_name", "original_organization", "plain_name", "original_url">>

\* not_official_text, for a license with an official text that has the keys
not_official_text(lc) ==
    IF ~lc.has_official THEN <<>>
    ELSE dedent(Lines(12,
        << <<"Plain License is not affiliated with the original", " ">>
               \o strip(Show(lc.meta["original_name"])) \o <<" ", "authors or", " ">>
               \o strip(Show(lc.meta["original_organization"])) \o <<".">>,
           <<"If you want to use the", " ">> \o strip(Show(lc.meta["plain_name"]))
               \o <<",", " ", "read the official", " ">>
               \o strip(Show(lc.meta["original_name"]))
               \o <<" ", "[", "here", "]", "(">>
               \o strip(Show(lc.meta["original_url"])) \o <<")", ".">> >>)
        \o Rep(" ", 12))

\* disclaimer_block
disclaimer_block(lc) ==
    IF ~lc.has_official
    THEN blockify(not_advice_text(lc), "warning", <<"legal advice">>, 3, <<>>)
    ELSE <<"<div class=admonition warning>", "<p class=admonition-title>", "The", " ">>
            \o TextOf(lc.meta, "plain_name", <<>>) \o <<" ", "isn't...", "</p>", "\n", "\n">>
            \o tabify(not_advice_text(lc), <<"legal advice">>, "")
            \o tabify(not_official_text(lc),
                      <<"the official", " ">> \o TextOf(lc.meta, "original_name", None), "")
            \o <<"</div>">>

\* interpretation_block(kind)
interpretation_block(lc, kind) ==
    IF ~lc.has_official THEN <<>>
    ELSE IF kind = "reader"
    THEN blockify(dedent(TextOf(lc.meta, "interpretation_text", <<>>)), "note",
                  TextOf(lc.meta, "interpretation_title", <<>>), 4, <<>>)
    ELSE IF kind = "markdown"
    THEN <<"#", "#", "#", " ">> \o TextOf(lc.meta, "interpretation_title", None)
            \o <<"\n", "\n">>
            \o wrap_text(dedent(TextOf(lc.meta, "interpretation_text", <<>>)))
    ELSE LET given == TextOf(lc.meta, "interpretation_text", <<>>)
             \* text = text or self.markdown_license_text
             as_plaintext == process_markdown_to_plaintext(
                                 IF given = <<>> THEN lc.markdown_license_text
                                 ELSE given)
             title == TextOf(lc.meta, "interpretation_title", <<>>)
             \* \{\{\s{1,2}plain_name\s\|\strim\s{1,2}\}\}
             trimmed == <<Lit("{"), Lit("{"), Cls(WS, 1, 2, TRUE), Lit("plain_name"),
                          Cls(WS, 1, 1, TRUE), Lit("|"), Cls(WS, 1, 1, TRUE),
                          Lit("trim"), Cls(WS, 1, 2, TRUE), Lit("}"), Lit("}")>>
             ms == finditer(trimmed, title)
             named == SubFrom(title, ms,
                          [n \in 1..Len(ms) |->
                              UpperAll(TextOf(lc.meta, "plain_name", <<>>))], 1, 1)
         IN  UpperAll(named) \o <<"\n", "\n">> \o dedent(as_plaintext)

\* reader
reader(lc) ==
    LET header_block == get_header_block(lc, "reader")
        txt == IF lc.has_official
               THEN <<"\n">> \o Lines(16, <<header_block, lc.reader_license_text,
                                           interpretation_block(lc, "reader"),
                                           disclaimer_block(lc)>>) \o Rep(" ", 16)
               ELSE <<"\n">> \o Lines(16, <<header_block, lc.reader_license_text,
                                           disclaimer_block(lc)>>) \o Rep(" ", 16)
    IN  tabify(dedent(txt), <<"reader">>, icon_map.reader)

\* the text of the markdown and plaintext tabs
fenced(lc, kind, fence, caption, body_text) ==
    LET header_block == get_header_block(lc, kind)
        body == wrap_text(dedent(<<"\n">> \o body_text \o <<"\n">>))
    IN  <<"\n", "\n", fence, " ", "title=">> \o TextOf(lc.meta, "plain_name", <<>>)
            \o <<" ", caption, "\n", "\n">> \o header_block \o <<"\n", "\n">> \o body
            \o wrap_text(interpretation_block(lc, kind))
            \o <<"\n", "~~~", "\n", "\n">> \o disclaimer_block(lc) \o <<"\n">>

\* markdown
markdown(lc) ==
    tabify(fenced(lc, "markdown", "~~~markdown", "in Github-style markdown",
                  lc.markdown_license_text),
           <<"markdown">>, icon_map.markdown)

\* plaintext
plaintext_tab(lc) ==
    tabify(fenced(lc, "plaintext", "~~~plaintext", "in plain text",
                  lc.plaintext_license_text),
           <<"plaintext">>, icon_map.plaintext)

\* changelog
changelog(lc) == tabify(lc.changelog_text, <<"changelog">>, icon_map.changelog)

\* official
official(lc) ==
    IF ~lc.has_official THEN <<>>
    ELSE tabify(IF "link_in_original" \in DOMAIN lc.meta
                      /\ Truthy(lc.meta["link_in_original"])
                THEN lc.official_license_text
                ELSE lc.official_license_text \o <<"\n", "\n">>
                        \o TextOf(lc.meta, "official_link", None),
                <<"official">>, icon_map.official)

\* embed_link, its constant lines abbreviated
embed_link(lc) ==
    strip(dedent(<<"\n">> \o Lines(12,
        << <<"#", " ", "Embedding Your License">>,
           <<"~~~html">>,
           <<"<iframe src=">> \o lc.embed_url \o <<" ", "title=">> \o lc.title \o <<">">>,
           Rep(" ", 4) \o <<"<a href=">> \o lc.url \o <<">">>,
           <<"</iframe>">>,
           <<"~~~">> >>) \o Rep(" ", 8)))

\* embed_instructions, its constant lines abbreviated
embed_instructions(lc) ==
    dedent(<<"\n">> \o Lines(12,
        << <<"The above code will embed the license in your site.">>,
           <<>>,
           <<"1.", " ", "**", "Copy the code above", "**">>,
           Rep(" ", 3) \o <<"-", " ", "The default width is 100%">>,
           <<"-", " ", "For light theme:", " ">> \o lc.embed_url \o <<"?theme=light">> >>)
        \o Rep(" ", 12))

\* embed
embed(lc) ==
    tabify(embed_link(lc) \o embed_instructions(lc), <<"html">>, icon_map.embed)

\* embed_file_markdown
embed_file_markdown(lc) ==
    blockify(dedent(<<"\n">> \o Lines(12, <<get_header_block(lc, "reader"),
                                           lc.reader_license_text>>) \o Rep(" ", 12)),
             "admonition",
             <<"Plain License:", " ", "<span class=detail-title-highlight>", "The", " ">>
                 \o TextOf(lc.meta, "plain_name", None) \o <<"</span>">>,
             3, LicenseOptions)

\* the tabs of a license, with an official tab whenever the metadata has
\* the key official_license_text
license_tabs_keyed(lc) ==
    reader(lc) \o <<"\n">> \o embed(lc) \o <<"\n">> \o markdown(lc)
        \o <<"\n">> \o plaintext_tab(lc) \o <<"\n">> \o changelog(lc)
        \o (IF "official_license_text" \in DOMAIN lc.meta
            THEN <<"\n">> \o tabify(lc.official_license_text, <<"official">>,
                                    icon_map.official)
            ELSE <<>>)

\* license_content: the tabs
license_tabs(lc) ==
    reader(lc) \o <<"\n">> \o embed(lc) \o <<"\n">> \o markdown(lc)
        \o <<"\n">> \o plaintext_tab(lc) \o <<"\n">> \o changelog(lc)
        \o (IF lc.has_official THEN <<"\n">> \o official(lc) ELSE <<>>)

\* license_content
license_content(lc) ==
    LET outro == IF "outro" \in DOMAIN lc.meta /\ Truthy(lc.meta["outro"])
                 THEN <<"\n", "\n">> \o Show(lc.meta["outro"]) \o <<"\n">>
                 ELSE <<"\n">>
    IN  blockify(license_tabs(lc), "admonition",
                 <<"<span class=detail-title-highlight>", "The", " ">>
                     \o TextOf(lc.meta, "plain_name", None) \o <<"</span>">>,
                 6, LicenseOptions) \o outro

(***************************************************************************)
(* LicenseContent(page): [raised, error, packages, lc].  packages is the   *)
(* directory of the package.json files after the call.                     *)
(***************************************************************************)
NoLicense ==
    [meta |-> <<>>, url |-> <<>>, license_type |-> "", title |-> <<>>,
     reader_license_text |-> <<>>, markdown_license_text |-> <<>>,
     plaintext_license_text |-> <<>>, changelog_text |-> <<>>,
     official_license_text |-> <<>>, plain_version |-> <<>>, tags |-> O("None"),
     has_official |-> FALSE, embed_url |-> <<>>]

KeyError(key, packages) ==
    [raised |-> TRUE, error |-> key, packages |-> packages, lc |-> NoLicense]

\* packages/<spdx_id.lower()>/package.json
PackagePath(spdx_id) == IF Len(spdx_id) = 1 THEN Lower(spdx_id[1]) ELSE ""

PackageAt(packages, spdx_id) ==
    IF PackagePath(spdx_id) \in DOMAIN packages
    THEN packages[PackagePath(spdx_id)] ELSE NoPackage

\* write_json(package_path, package)
WritePackage(packages, spdx_id, package) ==
    IF PackagePath(spdx_id) \in DOMAIN packages
    THEN [packages EXCEPT ![PackagePath(spdx_id)] = package] ELSE packages

\* "\n## such empty, much void :nounproject-doge:"
DefaultChangelog ==
    <<"\n", "#", "#", " ", "such empty, much void :nounproject-doge:">>

LicenseContent(meta, url, packages) ==
    LET package == PackageAt(packages, Show(meta["spdx_id"]))
        reader_text == replace_year(Show(meta["reader_license_text"]))
        markdown_text == process_mkdocs_to_markdown(reader_text)
        version == get_plain_version(package)
        official_text == dedent(TextOf(meta, "official_license_text", <<>>))
        lc == [meta |-> meta,
               url |-> url,
               license_type |-> get_license_type(meta, url),
               title |-> <<"The", " ">> \o Show(meta["plain_name"]),
               reader_license_text |-> reader_text,
               markdown_license_text |-> markdown_text,
               plaintext_license_text |-> process_markdown_to_plaintext(markdown_text),
               changelog_text |-> TextOf(meta, "changelog", DefaultChangelog),
               official_license_text |-> official_text,
               plain_version |-> version.version,
               tags |-> get_tags(meta),
               has_official |-> official_text # <<>>,
               embed_url |-> <<"https://plainlicense.org/embed/">>
                                \o LowerAll(Show(meta["spdx_id"])) \o <<".html">>]
        unread == SelectSeq(OfficialKeys, LAMBDA k : k \notin DOMAIN meta)
        written == WritePackage(packages, Show(meta["spdx_id"]), version.package)
    IN  IF "plain_name" \notin DOMAIN meta THEN KeyError("plain_name", packages)
        ELSE IF "reader_license_text" \notin DOMAIN meta
        THEN KeyError("reader_license_text", packages)
        ELSE IF "spdx_id" \notin DOMAIN meta THEN KeyError("spdx_id", packages)
        \* the debug log of __init__ evaluates license_content
        ELSE IF official_text # <<>> /\ unread # <<>>
        THEN KeyError(unread[1], written)
        ELSE [raised |-> FALSE, error |-> "", packages |-> written, lc |-> lc]

\* attributes
attributes(lc) ==
    [title |-> S(lc.title),
     year |-> S(year),
     reader_license_text |-> S(lc.reader_license_text),
     markdown_license_text |-> S(lc.markdown_license_text),
     plaintext_license_text |-> S(lc.plaintext_license_text),
     plain_version |-> S(lc.plain_version),
     license_type |-> S(<<lc.license_type>>),
     tags |-> lc.tags,
     changelog |-> S(changelog(lc)),
     official_license_text |-> S(lc.official_license_text),
     has_official |-> O(IF lc.has_official THEN "True" ELSE "False"),
     final_markdown |-> S(license_content(lc)),
     embed_file_markdown |-> S(embed_file_markdown(lc))]

(***************************************************************************)
(* get_extra_meta: the files of external/ are the same for the whole       *)
(* build; the model has front matter and SPDX details for MIT only.        *)
(***************************************************************************)
choosealicense ==
    [mit |-> [title |-> S(<<" ", "MIT License">>), hidden |-> O("False"),
              using |-> D([Babel |-> S(<<"https://github.com/babel">>)])]]

spdx_details == [mit |-> [licenseId |-> S(<<"MIT">>), isOsiApproved |-> O("True")]]

\* f"cal_{k}"
CalKey(k) ==
    CASE k = "title" -> "cal_title" [] k = "hidden" -> "cal_hidden"
      [] OTHER -> "cal_other"

get_extra_meta(spdx_id) ==
    LET stem == IF Len(spdx_id) = 1 THEN Lower(spdx_id[1]) ELSE ""
        cleaned_frontmatter ==
            IF stem \in DOMAIN choosealicense
            THEN clean_content(choosealicense[stem]) ELSE <<>>
        kept == {k \in DOMAIN cleaned_frontmatter :
                    Truthy(cleaned_frontmatter[k]) /\ k # "using"}
        cal == [c \in {CalKey(k) : k \in kept} |->
                   cleaned_frontmatter[CHOOSE k \in kept : CalKey(k) = c]]
        using == IF "using" \in DOMAIN cleaned_frontmatter
                    /\ IsDict(cleaned_frontmatter["using"])
                 THEN cleaned_frontmatter["using"].dict ELSE <<>>
        cleaned_spdx ==
            IF stem \in DOMAIN spdx_details
            THEN clean_content(spdx_details[stem]) ELSE <<>>
    IN  Merge(Merge(cal, using), cleaned_spdx)

(***************************************************************************)
(* assemble_license_page                                                   *)
(***************************************************************************)
\* a mutation that also leaves the page's metadata in the config
boilerplate_with_page(boilerplate, page_meta) ==
    Merge(Merge(boilerplate, page_meta),
          [year |-> S(strip(TextOf(boilerplate, "year", year)))])

\* boilerplate["year"] = boilerplate.get("year", now).strip(), made on the
\* mapping of the config: the mapping afterwards
boilerplate_with_year(boilerplate, page_meta) ==
    Merge(boilerplate,
          [year |-> S(strip(TextOf(boilerplate, "year", year)))])

\* self.meta if it were the mapping that meta |= ... updates
meta_of_license_shared(own, meta) == meta

\* self.meta of the LicenseContent at the end of assemble_license_page:
\* page.meta = meta | boilerplate made it a mapping of its own, which the
\* in-place updates of meta do not touch
meta_of_license(own, meta) == own

NotAssembled ==
    [assembled |-> FALSE, license |-> NoLicense, final_markdown |-> <<>>,
     license_at_end |-> NoLicense, license_content |-> <<>>]

\* [raised, error, boilerplate, packages, meta, markdown, trace]: the config
\* mapping and the package.json files after the call, page.meta and
\* page.markdown as the call leaves them, and the LicenseContent it built.
\* The statements of assemble_license_page follow, the last ones first; each
\* operator takes the values the statements before it have bound.
assemble_failed(error, page, config_after, own, made) ==
    [raised |-> TRUE, error |-> error, boilerplate |-> config_after,
     packages |-> made.packages, meta |-> own, markdown |-> page.markdown,
     trace |-> NotAssembled]

\* markdown = Template(markdown).render of meta; page.meta = meta;
\* page.markdown = markdown
render_page(page, config_after, own, made, attrs, meta, at_end, content) ==
    IF TemplateRaises(page.markdown \o content)
    THEN assemble_failed("TemplateSyntaxError", page, config_after, own, made)
    ELSE [raised |-> FALSE, error |-> "", boilerplate |-> config_after,
          packages |-> made.packages, meta |-> meta,
          markdown |-> Render(page.markdown \o content, meta),
          trace |-> [assembled |-> TRUE, license |-> made.lc,
                     final_markdown |-> attrs.final_markdown.str,
                     license_at_end |-> at_end, license_content |-> content]]

\* meta |= rendered_boilerplate;
\* markdown = (page.markdown or "") + p_license.license_content
add_license_content(page, config_after, own, made, attrs, with_extra, rendered) ==
    LET meta == Merge(with_extra, rendered.val)
        at_end == [made.lc EXCEPT !.meta = meta_of_license(own, meta)]
    IN  IF rendered.raised
        THEN assemble_failed("AttributeError", page, config_after, own, made)
        ELSE render_page(page, config_after, own, made, attrs, meta, at_end,
                         license_content(at_end))

\* rendered_boilerplate = render_mapping(boilerplate, meta)
render_boilerplate(page, config_after, boilerplate, own, made, attrs, with_extra) ==
    add_license_content(page, config_after, own, made, attrs, with_extra,
                        render_mapping(boilerplate, with_extra))

\* meta |= p_license.attributes; meta |= get_extra_meta(page.meta["spdx_id"])
add_attributes(page, cleaned, config_after, boilerplate, made, attrs) ==
    render_boilerplate(page, config_after, boilerplate, Merge(cleaned, boilerplate),
        made, attrs,
        Merge(Merge(cleaned, attrs),
              get_extra_meta(Show(Merge(cleaned, boilerplate)["spdx_id"]))))

\* p_license = LicenseContent(page)
with_license(page, cleaned, config_after, boilerplate, made) ==
    IF made.raised
    THEN assemble_failed(made.error, page, config_after,
                         Merge(cleaned, boilerplate), made)
    ELSE add_attributes(page, cleaned, config_after, boilerplate, made,
                        attributes(made.lc))

\* boilerplate = clean_content(boilerplate); page.meta = meta | boilerplate
with_boilerplate(page, packages, cleaned, config_after, boilerplate) ==
    with_license(page, cleaned, config_after, boilerplate,
                 LicenseContent(Merge(cleaned, boilerplate), page.url, packages))

\* meta = clean_content(dict(page.meta)); boilerplate["year"] = ...
with_meta(boilerplate_config, page, packages, cleaned) ==
    with_boilerplate(page, packages, cleaned,
        boilerplate_with_year(boilerplate_config, cleaned),
        clean_content(boilerplate_with_year(boilerplate_config, cleaned)))

assemble_license_page(boilerplate_config, page, packages) ==
    IF DOMAIN page.meta = {}
    THEN [raised |-> FALSE, error |-> "", boilerplate |-> boilerplate_config,
          packages |-> packages, meta |-> page.meta, markdown |-> page.markdown,
          trace |-> NotAssembled]
    ELSE with_meta(boilerplate_config, page, packages, clean_content(page.meta))

(***************************************************************************)
(* Files: an ordered mapping from src_uri to File.  A src_uri is the       *)
(* sequence of its "/"-separated segments.  A File is [src_uri, meta,      *)
(* markdown, generated]: the front matter and the body of its content.     *)
(***************************************************************************)
Categories ==
    {"proprietary", "public-domain", "copyleft", "permissive", "source-available"}

\* a category for every path under a category directory
get_category_any(uri) ==
    IF Len(uri) >= 3 /\ uri[2] \in Categories THEN uri[2] ELSE ""

\* get_category(uri)
get_category(uri) ==
    IF Len(uri) = 4 /\ uri[2] \in Categories THEN uri[2] ELSE ""

\* uri.strip().lower().endswith("index.md")
IndexNames == {"index.md", "INDEX.md", "myindex.md"}

\* filter_license_files(files)
filter_license_files(fs) ==
    LET kept == SelectSeq(fs, LAMBDA e : get_category(e.k) # ""
                                          /\ e.k[Len(e.k)] \in IndexNames)
    IN  [i \in 1..Len(kept) |-> kept[i].v]

\* Files(list)
RECURSIVE FilesOf(_)
FilesOf(list) ==
    IF list = <<>> THEN <<>>
    ELSE Put(FilesOf(Slice(list, 1, Len(list) - 1)),
             list[Len(list)].src_uri, list[Len(list)])

\* a collection that would keep the replaced file
Remove_nothing(fs, uri) == fs

\* files.remove(file)
Remove(fs, uri) == SelectSeq(fs, LAMBDA e : e.k # uri)

\* replace_files(files, new_files)
RECURSIVE replace_files(_, _)
replace_files(fs, new_files) ==
    IF new_files = <<>> THEN fs
    ELSE LET file == Head(new_files).v
         IN  replace_files(Append(Remove(fs, file.src_uri),
                                  [k |-> file.src_uri, v |-> file]),
                           Tail(new_files))

\* the new files are put into the collection as soon as they are made
replace_files_eagerly(fs, new_files) == replace_files(fs, new_files)

\* what on_files does to the collection when it raises: nothing, the only
\* replace_files call is its last statement
files_on_raise(fs, new_files) == fs

\* Page(None, file, config) after read_source; the url of a page is its
\* src_uri without the file name
PageOf(file) ==
    [meta |-> file.meta, markdown |-> file.markdown,
     url |-> Slice(file.src_uri, 1, Len(file.src_uri) - 1)]

\* create_new_file(page, file, config)
create_new_file(page, file) ==
    [src_uri |-> file.src_uri, meta |-> page.meta, markdown |-> page.markdown,
     generated |-> TRUE]

\* f"embeds/{stem}.md"
EmbedUri(spdx_id) == <<"embeds", PackagePath(spdx_id), ".md">>

\* create_license_embed_file(page, config)
create_license_embed_file(page) ==
    IF "description" \notin DOMAIN page.meta
    THEN [raised |-> TRUE, error |-> "description"]
    ELSE IF "embed_file_markdown" \notin DOMAIN page.meta
    THEN [raised |-> TRUE, error |-> "embed_file_markdown"]
    ELSE [raised |-> FALSE, error |-> "",
          file |-> [src_uri |-> EmbedUri(Show(page.meta["spdx_id"])),
                    meta |-> [template |-> S(<<"embedded_license.html">>),
                              description |-> page.meta["description"]],
                    markdown |-> Show(page.meta["embed_file_markdown"]),
                    generated |-> TRUE]]

(***************************************************************************)
(* on_files                                                                *)
(***************************************************************************)
\* the loop of on_files from the i-th license file on: [raised, error, at,
\* boilerplate, packages, new_license_files, pages]
RECURSIVE process_license_files(_, _, _, _, _, _)

\* the rest of the loop body once assemble_license_page has returned updated
process_updated(license_files, i, updated, new_file, embed_file, new_files, pages) ==
    IF updated.raised \/ embed_file.raised
    THEN [raised |-> TRUE,
          error |-> IF updated.raised THEN updated.error ELSE embed_file.error,
          at |-> i, boilerplate |-> updated.boilerplate, packages |-> updated.packages,
          new_license_files |-> new_files, pages |-> pages]
    ELSE process_license_files(license_files, i + 1, updated.boilerplate,
             updated.packages, new_files \o <<new_file, embed_file.file>>,
             Append(pages, [src_uri |-> license_files[i].src_uri,
                            meta |-> updated.meta, markdown |-> updated.markdown,
                            trace |-> updated.trace]))

\* new_file and the embed file of the loop body
process_page(license_files, i, updated, new_files, pages) ==
    process_updated(license_files, i, updated,
                    create_new_file(updated, license_files[i]),
                    create_license_embed_file(updated), new_files, pages)

process_license_files(license_files, i, boilerplate_config, pkgs, new_files, pages) ==
    IF i > Len(license_files)
    THEN [raised |-> FALSE, error |-> "", at |-> 0, boilerplate |-> boilerplate_config,
          packages |-> pkgs, new_license_files |-> new_files, pages |-> pages]
    ELSE process_page(license_files, i,
                      assemble_license_page(boilerplate_config,
                                            PageOf(license_files[i]), pkgs),
                      new_files, pages)

NotBuilt == [called |-> FALSE]

NoPrePage == [called |-> FALSE]

(***************************************************************************)
(* The site of the model.                                                  *)
(***************************************************************************)
ReaderA ==
    <<"#", " ", "a", "\n", "x", " ", "(1)", "\n", Marker, "\n", "1.", " ", "y", "\n",
      "{", "{", " ", "year", " ", "}", "}", "\n">>

ReaderB == <<"~t~", "\n", ":", " ", "d", "\n", "\n", "a">>

OfficialText == <<" ", " ", "the", " ", "code", "\n", " ", " ", "Shall">>

RequiredKeys == {"plain_name", "reader_license_text", "spdx_id", "description"}

Without(meta, key) == [k \in DOMAIN meta \ {key} |-> meta[k]]

MetaMIT ==
    [plain_name |-> S(<<"MIT">>), spdx_id |-> S(<<"MIT">>),
     description |-> S(<<" ", "d">>), reader_license_text |-> S(ReaderA),
     official_license_text |-> S(OfficialText), original_name |-> S(<<"MIT">>),
     original_organization |-> S(<<"x">>), original_url |-> S(<<"u">>),
     original_version |-> S(<<"1.0">>),
     permissions |-> L(<<S(<<"distribution">>), S(<<"y">>)>>),
     outro |-> S(<<"a">>)]

MetaGPL ==
    [plain_name |-> S(<<"GPL">>), spdx_id |-> S(<<"GPL">>),
     description |-> S(<<"d">>), reader_license_text |-> S(ReaderB),
     official_license_text |-> S(<<"Shall">>), original_name |-> S(<<"GPL">>),
     original_organization |-> S(<<"y">>), original_url |-> S(<<"u">>),
     link_in_original |-> O("True")]

\* a second license that shares the package.json of MIT, without official text
MetaLower ==
    [plain_name |-> S(<<"x">>), spdx_id |-> S(<<"mit">>),
     description |-> S(<<"d">>), reader_license_text |-> S(ReaderB)]

\* a dedication whose official text is blank
MetaBlank ==
    [plain_name |-> S(<<"a">>), spdx_id |-> S(<<"x">>),
     description |-> S(<<"d">>), reader_license_text |-> S(ReaderA),
     official_license_text |-> S(<<" ">>),
     changelog |-> S(<<"#", " ", "a">>)]

SourceFile(uri, meta, body) ==
    [src_uri |-> uri, meta |-> meta, markdown |-> body, generated |-> FALSE]

\* the docs directory in the order mkdocs walks it: for every path the
\* variants of its file
Docs ==
    << {SourceFile(<<"index.md">>, [title |-> S(<<"a">>)], <<"a">>),
        \* a directory of a category outside licenses/
        SourceFile(<<"blog", "permissive", "x", "index.md">>, <<>>, <<"a">>)},
       {SourceFile(<<"licenses", "copyleft", "gpl", "index.md">>, MetaGPL, <<>>)},
       {SourceFile(<<"licenses", "faq", "index.md">>, <<>>, <<"a">>),
        SourceFile(<<"licenses", "faq", "x", "index.md">>, <<>>, <<"a">>),
        SourceFile(<<"licenses", "permissive", "index.md">>, <<>>, <<"a">>)},
       {SourceFile(<<"licenses", "permissive", "mit", "index.md">>, MetaMIT,
                   <<"#", " ", "MIT", "\n">>),
        SourceFile(<<"licenses", "permissive", "mit", "readme.md">>, MetaMIT, <<>>),
        SourceFile(<<"licenses", "permissive", "mit", "old", "index.md">>,
                   MetaMIT, <<>>)},
       {SourceFile(<<"licenses", "permissive", "x", "index.md">>, MetaLower, <<>>),
        SourceFile(<<"licenses", "permissive", "x", "INDEX.md">>, MetaLower, <<>>)},
       {SourceFile(<<"licenses", "public-domain", "a", "index.md">>, MetaBlank, <<>>)},
       {SourceFile(<<"licenses", "source-available", "bad", "index.md">>,
                   Without(MetaGPL, k), <<>>) :
            k \in RequiredKeys \cup {"original_name"}}
         \cup {SourceFile(<<"licenses", "source-available", "bad", "index.md">>,
                          <<>>, <<"a">>)} >>

\* config["extra"]["boilerplate"]
Boilerplates ==
    LET base == [interpretation_title |->
                     S(<<"Interpreting", " ", "{", "{", " ", "plain_name", " ", "}", "}">>),
                 interpretation_text |-> S(<<"a", " ">>)]
    IN  {base, Merge(base, [year |-> S(<<" ", "2025">>)])}

\* the packages directory
PackageDirs ==
    { [mit |-> NoPackage, gpl |-> NoPackage],
      [mit |-> [exists |-> TRUE, name |-> "mit",
                version |-> <<"0.1.0", "-", "development">>],
       gpl |-> [exists |-> TRUE, name |-> "gpl", version |-> <<"1.2.0">>]] }

\* the position in Docs of the last file of the collection
LastDoc(fs) ==
    IF fs = <<>> THEN 0
    ELSE CHOOSE j \in 1..Len(Docs) : \E f \in Docs[j] : f.src_uri = fs[Len(fs)].k

BuildInit ==
    /\ files = <<>>
    /\ config_boilerplate \in Boilerplates
    /\ package_files \in PackageDirs
    /\ built = NotBuilt
    /\ pre_page = NoPrePage
    /\ NotBuildIdle

\* mkdocs finds the next file of the docs directory
AddFile ==
    /\ UNCHANGED notBuild
    /\ ~built.called
    /\ Len(files) < MaxFiles
    /\ \E j \in (LastDoc(files) + 1)..Len(Docs) : \E f \in Docs[j] :
          files' = Append(files, [k |-> f.src_uri, v |-> f])
    /\ UNCHANGED <<config_boilerplate, package_files, built, pre_page>>

\* on_files(files, config)
on_files ==
    /\ UNCHANGED notBuild
    /\ ~built.called
    /\ \E license_files \in {filter_license_files(files)} :
          IF license_files = <<>>
          THEN /\ built' = [called |-> TRUE, raised |-> TRUE,
                            error |-> "FileNotFoundError", at |-> 0, pages |-> <<>>,
                            files |-> files, boilerplate |-> config_boilerplate,
                            packages |-> package_files]
               /\ UNCHANGED <<files, config_boilerplate, package_files>>
          ELSE \E r \in {process_license_files(license_files, 1, config_boilerplate,
                                                package_files, <<>>, <<>>)} :
               /\ files' = IF r.raised
                           THEN files_on_raise(files, FilesOf(r.new_license_files))
                           ELSE replace_files(files, FilesOf(r.new_license_files))
               /\ config_boilerplate' = r.boilerplate
               /\ package_files' = r.packages
               /\ built' = [called |-> TRUE, raised |-> r.raised, error |-> r.error,
                            at |-> r.at, pages |-> r.pages, files |-> files,
                            boilerplate |-> config_boilerplate,
                            packages |-> package_files]
    /\ UNCHANGED pre_page

(***************************************************************************)
(* on_pre_page of update_changelogs                                        *)
(***************************************************************************)
\* Status.expected_licenses: the parent directories of
\* docs/licenses/**/index.md that are no category
expected_licenses(docs) ==
    {docs[i].k[Len(docs[i].k) - 1] :
        i \in {n \in 1..Len(docs) : /\ Len(docs[n].k) >= 3
                                    /\ docs[n].k[1] = "licenses"
                                    /\ docs[n].k[Len(docs[n].k)] = "index.md"}}
        \ (Categories \cup {"licenses"})

\* page.url.split("/")[-2] if len(page.url.split("/")) > 2 else ""
page_name(url) == IF Len(url) >= 2 THEN url[Len(url)] ELSE ""

\* the other placeholder of the code base, the default of LicenseContent
changelog_content_default(exists, content) ==
    IF exists THEN content ELSE DefaultChangelog

\* changelog_path.read_text() if changelog_path.exists() else the placeholder
changelog_content(exists, content) ==
    IF exists THEN content ELSE <<"#", "#", " ", "such empty, much void :nounproject-doge:">>

\* the text of a changelog file that exists
ChangelogFile == <<"#", " ", "1.0", "\n", "a">>

\* on_pre_page(page, config, files), on the page of a file of the
\* collection; the changelog of the license exists or not
on_pre_page ==
    /\ UNCHANGED notBuild
    /\ built.called
    /\ ~built.raised
    /\ \E i \in 1..Len(files), exists \in BOOLEAN :
          LET file == files[i].v
              page == [PageOf(file) EXCEPT
                          !.meta = IF file.generated THEN file.meta ELSE <<>>]
              license_name == TextOf(page.meta, "spdx_id", <<page_name(page.url)>>)
              is_license == is_license_page(status, page_name(page.url),
                                            expected_licenses(built.files))
              called == [called |-> TRUE, src_uri |-> file.src_uri,
                         license |-> page_name(page.url)
                                         \in expected_licenses(built.files),
                         exists |-> exists, raised |-> is_license.raised,
                         before |-> page.meta, meta |-> page.meta]
          IN  pre_page' =
                  IF is_license.raised \/ ~is_license.value THEN called
                  ELSE [called EXCEPT
                          !.meta = Merge(page.meta,
                                         [changelog |->
                                             S(changelog_content(exists, ChangelogFile))])]
    /\ UNCHANGED <<files, config_boilerplate, package_files, built>>

BuildNext == CallStatus \/ AddFile \/ on_files \/ on_pre_page

SpecBuild == BuildInit /\ [][BuildNext]_vars

(***************************************************************************)
(* Claims about the build.                                                 *)
(***************************************************************************)
\* the license files on_files was called with, in the order it processes
\* them; the n-th page of built.pages was made from the n-th of them
BuiltLicenseFiles == filter_license_files(built.files)

\* the pages on_files assembled with a LicenseContent
AssembledPages ==
    IF built.called
    THEN {n \in 1..Len(built.pages) : built.pages[n].trace.assembled}
    ELSE {}

\* the titles of the tab headers that start at column 0 of a text
TopTabs(txt) ==
    LET lines == SplitLines(txt, <<>>)
        headers == SelectSeq(lines, LAMBDA l : Len(l) >= 7 /\ l[1] = "===")
    IN  [n \in 1..Len(headers) |-> headers[n][6]]

Count(seq, x) == Cardinality({n \in 1..Len(seq) : seq[n] = x})

(***************************************************************************)
(* C1: for every license page, the assembled license_content holds exactly *)
(* one top-level tab block for each of reader, markdown, plaintext and     *)
(* changelog, and exactly one official tab block when                      *)
(* official_license_text is not empty, none when it is empty.              *)
(***************************************************************************)
C1_OneTabEach ==
    \A n \in AssembledPages :
        LET trace == built.pages[n].trace
            tabs == TopTabs(trace.license_content)
        IN  /\ \A t \in {"reader", "markdown", "plaintext", "changelog"} :
                  Count(tabs, t) = 1
            /\ Count(tabs, "official")
                   = IF trace.license.official_license_text # <<>> THEN 1 ELSE 0

\* a build that assembled a license with an official text, with tab headers
\* nested in its tabs, and a license whose official text is blank
C1_Witness ==
    /\ \E n \in AssembledPages :
          LET trace == built.pages[n].trace
          IN  /\ trace.license.official_license_text # <<>>
              /\ Count(TopTabs(trace.license_content), "official") = 1
              /\ Count(trace.license_content, "===") > 6
    /\ \E n \in AssembledPages :
          LET trace == built.pages[n].trace
          IN  /\ "official_license_text" \in DOMAIN trace.license.meta
              /\ trace.license.official_license_text = <<>>
              /\ Count(TopTabs(trace.license_content), "official") = 0

(***************************************************************************)
(* C5: the rendering of a license page does not depend on any other        *)
(* license page.  The metadata and the markdown on_files produced for a    *)
(* page, after the pages before it were assembled and had changed          *)
(* config["extra"]["boilerplate"] and the package.json files, are those    *)
(* assemble_license_page produces for that page alone, from the config and *)
(* the files on_files started with.  (The first page of a build is         *)
(* assembled from that very state.)                                        *)
(***************************************************************************)
C5_PageIndependent ==
    built.called =>
        \A n \in 2..Len(built.pages) :
            \E alone \in {assemble_license_page(built.boilerplate,
                                                PageOf(BuiltLicenseFiles[n]),
                                                built.packages)} :
                /\ ~alone.raised
                /\ alone.meta = built.pages[n].meta
                /\ alone.markdown = built.pages[n].markdown

\* two licenses with distinct SPDX ids were assembled one after the other,
\* and the first assembly changed the boilerplate of the config
C5_Witness ==
    /\ built.called
    /\ Len(built.pages) >= 2
    /\ built.pages[1].trace.assembled
    /\ built.pages[2].trace.assembled
    /\ built.pages[1].meta["spdx_id"] # built.pages[2].meta["spdx_id"]
    /\ "year" \notin DOMAIN built.boilerplate
    /\ "year" \in DOMAIN config_boilerplate

Malformed ==
    {i \in 1..Len(BuiltLicenseFiles) :
        RequiredKeys \ DOMAIN BuiltLicenseFiles[i].meta # {}}

C8_MissingKeyRaises ==
    (built.called /\ Malformed # {}) =>
        LET first == CHOOSE i \in Malformed : \A j \in Malformed : i <= j
        IN  /\ built.raised
            /\ built.at <= first
            /\ Len(built.pages) = built.at - 1
            /\ built.at = first =>
                   built.error \in RequiredKeys \ DOMAIN BuiltLicenseFiles[first].meta
            /\ files = built.files

\* on_files raised on a malformed page after it had assembled another page
\* and made its new files
C8_Witness ==
    /\ built.called
    /\ built.raised
    /\ built.error \in RequiredKeys
    /\ Len(built.pages) >= 1
    /\ built.at = 2
    /\ 2 \in Malformed
    /\ files = built.files

(***************************************************************************)
(* C10: missing files never raise and fall back to placeholders.  When the *)
(* changelog file of a license does not exist, on_pre_page sets            *)
(* page.meta["changelog"] to "## such empty, much void                     *)
(* :nounproject-doge:"; when the package.json of a license does not exist, *)
(* get_plain_version returns "0.0.0" and writes nothing.                   *)
(***************************************************************************)
C10_MissingFilesFallBack ==
    /\ (pre_page.called /\ pre_page.license /\ ~pre_page.exists) =>
           /\ ~pre_page.raised
           /\ "changelog" \in DOMAIN pre_page.meta
           /\ pre_page.meta["changelog"]
                  = S(<<"#", "#", " ", "such empty, much void :nounproject-doge:">>)
    /\ \A n \in AssembledPages :
           LET license == built.pages[n].trace.license
               spdx_id == Show(license.meta["spdx_id"])
           IN  ~PackageAt(built.packages, spdx_id).exists =>
                   /\ license.plain_version = <<"0.0.0">>
                   /\ PackageAt(package_files, spdx_id) = NoPackage

(***************************************************************************)
(* C11: after on_files returns, the Files collection holds, for every      *)
(* license index page of the input, exactly one file with that src_uri,    *)
(* the generated replacement; exactly one embed file at                    *)
(* embeds/<lower-cased spdx_id>.md for every license; no src_uri twice;    *)
(* and every file that is no license index page, as it was.                *)
(***************************************************************************)
\* the positions of the collection that hold a file with this src_uri
Entries(fs, uri) == {i \in 1..Len(fs) : fs[i].k = uri /\ fs[i].v.src_uri = uri}

C11_FilesReplaced ==
    (built.called /\ ~built.raised) =>
        /\ Len(built.pages) = Len(BuiltLicenseFiles)
        /\ \A n \in 1..Len(BuiltLicenseFiles) :
              \E i \in 1..Len(files) :
                  /\ Entries(files, BuiltLicenseFiles[n].src_uri) = {i}
                  /\ files[i].v.generated
                  /\ files[i].v.meta = built.pages[n].meta
                  /\ files[i].v.markdown = built.pages[n].markdown
        /\ \A n \in 1..Len(built.pages) :
              \E i \in 1..Len(files) :
                  /\ Entries(files, <<"embeds",
                                      LowerAll(Show(built.pages[n].meta["spdx_id"]))[1],
                                      ".md">>) = {i}
                  /\ files[i].v.generated
        /\ \A i, j \in 1..Len(files) : files[i].k = files[j].k => i = j
        /\ \A i \in 1..Len(built.files) :
              (\A n \in 1..Len(built.pages) :
                    built.pages[n].src_uri # built.files[i].k)
                  => \E j \in 1..Len(files) : files[j] = built.files[i]

\* on_files returned after it had replaced a license page that followed a
\* file that is no license page
C11_Witness ==
    /\ built.called
    /\ ~built.raised
    /\ Len(built.files) = 2
    /\ Len(built.pages) = 1
    /\ Len(files) = 3
    /\ files[1] = built.files[1]
    /\ files[2].v.generated
    /\ files[3].k[1] = "embeds"

(***************************************************************************)
(* C12: on_files treats a file as a license page exactly when its src_uri  *)
(* has four segments, the second of them is one of proprietary,            *)
(* public-domain, copyleft, permissive and source-available, and it ends   *)
(* with index.md in any case; when no file of the input is one, on_files   *)
(* raises FileNotFoundError and leaves the Files collection as it was.     *)
(***************************************************************************)
\* the file names of the model that end with index.md in some case
EndsWithIndexMd(name) == name \in {"index.md", "INDEX.md", "myindex.md"}

IsLicenseIndex(uri) ==
    /\ Len(uri) = 4
    /\ uri[2] \in {"proprietary", "public-domain", "copyleft", "permissive",
                    "source-available"}
    /\ EndsWithIndexMd(uri[4])

\* the src_uris of the files on_files assembled a page for, in order
TreatedAsLicense == [n \in 1..Len(built.pages) |-> built.pages[n].src_uri]

C12_LicensePageDetection ==
    built.called =>
        LET expected == SelectSeq([i \in 1..Len(built.files) |-> built.files[i].k],
                                  IsLicenseIndex)
        IN  /\ (expected = <<>>) <=> (built.raised /\ built.error = "FileNotFoundError")
            /\ expected = <<>> => (files = built.files /\ built.pages = <<>>)
            /\ ~built.raised => TreatedAsLicense = expected
            /\ (built.raised /\ expected # <<>>) =>
                   /\ built.at \in 1..Len(expected)
                   /\ TreatedAsLicense = SubSeq(expected, 1, built.at - 1)

\* on_files raised FileNotFoundError on an index page that is under no
\* category and a file of a license directory that is no index page
C12_Witness ==
    /\ built.called
    /\ built.raised
    /\ built.error = "FileNotFoundError"
    /\ Len(built.files) = 2
    /\ built.files[1].k = <<"licenses", "faq", "x", "index.md">>
    /\ built.files[2].k = <<"licenses", "permissive", "mit", "readme.md">>
    /\ files = built.files

(***************************************************************************)
(* update_site_license.py: SiteLicense.  world is [UNLICENSE, lcnse]: the  *)
(* file at Path.cwd() / "UNLICENSE" as [exists, content], and the          *)
(* SiteLicense object as [made, full_text].                                *)
(***************************************************************************)
\* the comment block of SiteLicense.preamble, one lexeme
preamble == <<"<!--- All original content on plainlicense.org ... --->">>

\* SiteLicense.__init__: full_text from the metadata of the page
SiteLicense_init(meta) ==
    LET name == strip(TextOf(meta, "plain_name", <<"Plain Unlicense">>))
        title == <<"\n", "#", " ">> \o name
        txt == wrap_text(strip(TextOf(meta, "markdown_license_text", <<>>)))
        interpretation_text ==
            wrap_text(strip(TextOf(meta, "interpretation_text", <<>>)))
        interpretation_section ==
            <<"#", "#", "#", " ">> \o strip(TextOf(meta, "interpretation_title", <<>>))
                \o <<"\n", "\n">> \o interpretation_text
        version_text ==
            <<"Plain Version:", " ">> \o strip(TextOf(meta, "plain_version", <<>>))
    IN  [made |-> TRUE,
         full_text |->
             preamble \o <<"\n", "\n">> \o title \o <<"\n", "\n">> \o version_text
                 \o <<"\n", "\n">> \o txt \o <<"\n", "\n">> \o interpretation_section
                 \o <<"\n", "\n", "Official Unlicense:", " ", "[", "Unlicense.org", "]", "(">>
                 \o strip(TextOf(meta, "original_url", <<>>)) \o <<")">>]

\* the UNLICENSE file when check_for_updates writes all it has to
UNLICENSE_created(file, full_text) == [exists |-> TRUE, content |-> full_text]

\* the UNLICENSE file after check_for_updates
UNLICENSE_after(file, full_text) ==
    IF file.exists
    THEN IF file.content # full_text
         \* unlink, touch, write_text
         THEN [exists |-> TRUE, content |-> full_text]
         ELSE file
    \* "UNLICENSE file not found" is logged
    ELSE file

\* the metadata of the pages of the Unlicense
SiteMetas ==
    { [k \in keys |->
          CASE k = "plain_name" -> S(<<" ", "Plain Unlicense">>)
            [] k = "markdown_license_text" -> S(<<"a", " ", "\n", "x", "\n", "\n", "y", " ">>)
            [] k = "interpretation_text" -> S(<<"z", " ", "\n">>)
            [] k = "plain_version" -> S(<<"1.0">>)
            [] OTHER -> S(<<"https://unlicense.org">>)] :
        keys \in SUBSET {"plain_name", "markdown_license_text", "interpretation_text",
                         "plain_version", "original_url"} }

NoFile == [exists |-> FALSE, content |-> <<>>]

\* the UNLICENSE file of the repository: missing, empty, an older text, or
\* the text of some version of the license
SiteFiles ==
    {NoFile, [exists |-> TRUE, content |-> <<>>],
     [exists |-> TRUE, content |-> <<"a">>]}
        \cup {[exists |-> TRUE, content |-> SiteLicense_init(meta).full_text] :
                 meta \in {<<>>, [plain_version |-> S(<<"1.0">>)]}}

SiteInit ==
    /\ world \in {[UNLICENSE |-> f, lcnse |-> [made |-> FALSE]] : f \in SiteFiles}
    /\ call = NoCall
    /\ NotCallIdle

\* lcnse = SiteLicense(context, page)
CallSiteLicense ==
    /\ UNCHANGED notCall
    /\ \E meta \in SiteMetas :
          /\ world' = [world EXCEPT !.lcnse = SiteLicense_init(meta)]
          /\ call' = [op |-> "SiteLicense", checks |-> 0]

\* lcnse.check_for_updates(); checks counts the calls made in a row
check_for_updates ==
    /\ UNCHANGED notCall
    /\ world.lcnse.made
    /\ world' = [world EXCEPT
                    !.UNLICENSE = UNLICENSE_after(world.UNLICENSE,
                                                  world.lcnse.full_text)]
    /\ call' = [op |-> "check_for_updates",
                checks |-> IF call.checks = 0 THEN 1 ELSE 2,
                before |-> world.UNLICENSE,
                written |-> world.UNLICENSE.exists
                               /\ world.UNLICENSE.content # world.lcnse.full_text]

SiteNext == CallSiteLicense \/ check_for_updates

SpecSite == SiteInit /\ [][SiteNext]_vars

\* C13 as stated: check_for_updates synchronizes the UNLICENSE file with the
\* current license: after the call the file exists and its content equals
\* full_text; when the content already equals full_text the file is not
\* written; a second call in a row leaves the file state of the first.
C13_FileSynchronized ==
    call.op = "check_for_updates" =>
        /\ world.UNLICENSE.exists
        /\ world.UNLICENSE.content = world.lcnse.full_text
        /\ (call.before.exists /\ call.before.content = world.lcnse.full_text)
               => ~call.written
        /\ call.checks = 2 => world.UNLICENSE = call.before

\* C13, amended: when the UNLICENSE file exists, after check_for_updates its
\* content equals full_text, and it is written only if its content differed;
\* when the file does not exist, check_for_updates creates nothing and the
\* file is still missing; a second call in a row changes nothing.
C13_ExistingFileSynchronized ==
    call.op = "check_for_updates" =>
        /\ world.UNLICENSE.exists = call.before.exists
        /\ call.before.exists =>
               /\ world.UNLICENSE.content = world.lcnse.full_text
               /\ call.written <=> call.before.content # world.lcnse.full_text
        /\ ~call.before.exists => (world.UNLICENSE = NoFile /\ ~call.written)
        /\ call.checks = 2 => (world.UNLICENSE = call.before /\ ~call.written)

\* check_for_updates found an UNLICENSE file that held an older text and
\* wrote the text of the license into it
C13_Witness ==
    /\ call.op = "check_for_updates"
    /\ call.checks = 1
    /\ call.written
    /\ call.before = [exists |-> TRUE, content |-> <<"a">>]
    /\ world.UNLICENSE.content = world.lcnse.full_text

\* C14: shame_counter.on_page_markdown returns the markdown it was given for
\* every page (no license page, a license page without original_name or
\* official_license_text, a license page with any number of shame words,
\* none included) and never raises.  The return statement is reached
\* exactly when no exception was raised.
C14_MarkdownReturned == last.op = "on_page_markdown" => ~last.raised

(***************************************************************************)
(* get_plain_version on its own.  world is [package, command,              *)
(* GITHUB_ACTIONS]: the package.json of the license, the mkdocs command of *)
(* the build and the environment variable.                                 *)
(***************************************************************************)
\* _is_production(command)
_is_production(command, GITHUB_ACTIONS) ==
    command \in {"build", "gh-deploy"} \/ GITHUB_ACTIONS = "true"

HasDevelopment(version) == \E i \in 1..Len(version) : version[i] = "development"

\* the versions a package.json holds; <<>> is no version key or ""
Versions ==
    {<<>>, <<"0.0.0">>, <<"0.1.0">>, <<"1.2.0">>, <<"development">>,
     <<"0.2.0", "-", "development">>, <<"development", ".", "3">>}

Packages ==
    {NoPackage} \cup {[exists |-> TRUE, name |-> n, version |-> v] :
                        n \in {"", "@plainlicense/mit"}, v \in Versions}

VersionInit ==
    /\ world \in [package : Packages, command : {"serve", "build", "gh-deploy"},
                  GITHUB_ACTIONS : {"", "true"}]
    /\ call = NoCall
    /\ NotCallIdle

\* license.get_plain_version(); calls counts the calls made
CallGetPlainVersion ==
    /\ UNCHANGED notCall
    /\ \E r \in {get_plain_version(world.package)} :
          /\ world' = [world EXCEPT !.package = r.package]
          /\ call' = [op |-> "get_plain_version",
                      calls |-> IF call.op = "none" THEN 1 ELSE 2,
                      before |-> world.package,
                      ret |-> r.version]

VersionNext == CallGetPlainVersion

SpecVersion == VersionInit /\ [][VersionNext]_vars

C19_RewriteOnlyInProduction ==
    call.op = "get_plain_version" =>
        /\ world.package # call.before =>
               /\ _is_production(world.command, world.GITHUB_ACTIONS)
               /\ HasDevelopment(call.before.version)
               /\ world.package = [call.before EXCEPT !.version = <<"0.1.0">>]
        /\ (call.before.exists /\ HasDevelopment(call.before.version)) =>
               IF _is_production(world.command, world.GITHUB_ACTIONS)
               THEN world.package.version = <<"0.1.0">> /\ call.ret = <<"0.1.0">>
               ELSE world.package = call.before /\ call.ret = call.before.version
        /\ call.calls = 2 => world.package = call.before

(***************************************************************************)
(* get_tags on its own.  world is the metadata of the page.                *)
(***************************************************************************)
\* what a page's frontmatter holds under conditions, permissions or
\* limitations
TagLists ==
    {O("None"), L(<<>>), L(<<S(<<"include-copyright">>)>>),
     L(<<S(<<"bogus">>)>>), L(<<S(<<"bogus">>), S(<<"commercial-use">>)>>)}

TagMetas ==
    UNION {[ks -> TagLists] :
             ks \in SUBSET {"conditions", "permissions", "limitations"}}

TagsInit ==
    /\ world \in TagMetas
    /\ call = NoCall
    /\ NotCallIdle

\* license.get_tags()
CallGetTags ==
    /\ UNCHANGED notCall
    /\ world' = world
    /\ call.op = "none"
    /\ call' = [op |-> "get_tags", ret |-> get_tags(world)]

TagsNext == CallGetTags

SpecTags == TagsInit /\ [][TagsNext]_vars

\* the tags under a key of the metadata, in the order of the frontmatter
Listed(meta, key) ==
    IF key \in DOMAIN meta /\ IsList(meta[key]) THEN meta[key].list ELSE <<>>

\* the tags of tag_map among them, mapped
Mapped(tags) ==
    LET valid == SelectSeq(tags, LAMBDA t : t.str[1] \in DOMAIN tag_map)
    IN  [i \in 1..Len(valid) |-> S(<<tag_map[valid[i].str[1]]>>)]

\* C16: get_tags returns the mapped tags of the page's conditions,
\* permissions and limitations, in that order, keeping only the tags of
\* tag_map, and returns None when no valid tags are present, also when the
\* frontmatter lists tags of which none is in tag_map.
C16_MappedTagsOrNone ==
    call.op = "get_tags" =>
        LET mapped == Mapped(Listed(world, "conditions")
                                \o Listed(world, "permissions")
                                \o Listed(world, "limitations"))
        IN  call.ret = IF mapped = <<>> THEN O("None") ELSE L(mapped)

\* w is v with every string in it, at any depth, stripped and everything
\* else as it was
RECURSIVE StrippedOf(_, _)
StrippedOf(v, w) ==
    IF IsStr(v) THEN IsStr(w) /\ w.str = strip(v.str)
    ELSE IF IsDict(v)
         THEN /\ IsDict(w)
              /\ DOMAIN w.dict = DOMAIN v.dict
              /\ \A k \in DOMAIN v.dict : StrippedOf(v.dict[k], w.dict[k])
    ELSE IF IsList(v)
         THEN /\ IsList(w)
              /\ Len(w.list) = Len(v.list)
              /\ \A i \in 1..Len(v.list) : StrippedOf(v.list[i], w.list[i])
    ELSE w = v

Cleaned == result.called /\ result.fn = "clean_content"

\* C17 as stated: clean_content returns a mapping with the keys of its input
\* in which every string, at any depth inside dicts and lists, is stripped
\* and every value that is no string is unchanged; cleaning twice gives
\* what cleaning once gives.
C17_StringsStripped ==
    Cleaned =>
        /\ DOMAIN result.val = DOMAIN mapping
        /\ \A k \in DOMAIN mapping : StrippedOf(mapping[k], result.val[k])
        /\ clean_content(result.val) = result.val

\* C17, amended: clean_content returns a mapping with the keys of its input;
\* a value of the mapping that is falsy (None, 0, False, an empty string,
\* list or dict) becomes the empty string; in every other value each
\* string, at any depth, is stripped and everything else is unchanged;
\* cleaning twice gives what cleaning once gives.
C17_StringsStrippedFalsyEmptied ==
    Cleaned =>
        /\ DOMAIN result.val = DOMAIN mapping
        /\ \A k \in DOMAIN mapping :
              IF Truthy(mapping[k]) THEN StrippedOf(mapping[k], result.val[k])
              ELSE result.val[k] = S(<<>>)
        /\ clean_content(result.val) = result.val

\* a mapping with None and with a list that holds None and an unstripped
\* string was cleaned
C17_Witness ==
    /\ Cleaned
    /\ \E k \in DOMAIN mapping :
          mapping[k] = O("None") /\ result.val[k] = S(<<>>)
    /\ \E k \in DOMAIN mapping :
          /\ mapping[k] = L(<<O("None"), S(<<" ", "x">>)>>)
          /\ result.val[k] = L(<<O("None"), S(<<"x">>)>>)

\* C18: render_mapping renders values recursively: it returns a mapping
\* with the same keys in which every string (a direct value, a value of a
\* nested dict, an element of a list) is rendered with the context and
\* every value that is no string, dict or list is unchanged; it does not
\* raise for a list whose elements are strings.
C18_RenderedRecursively ==
    Rendered =>
        /\ ~result.raised
        /\ DOMAIN result.val = DOMAIN mapping
        /\ \A k \in DOMAIN mapping :
              result.val[k] = render_value_itemwise(mapping[k], RenderContext).val

\* counter[w] of a Counter: 0 for a word it does not hold
CountOf(counter, w) == IF Has(counter, w) THEN Value(counter, w) ELSE 0

\* C20: after any sequence of on_page_markdown calls (a license page
\* processed more than once and two pages sharing an original_name
\* included) the aggregate is the sum of the counters of the licenses: for
\* every word w, total_counts[w] is the sum over the licenses l of
\* shame_counts[l][w].
C20_TotalIsSumOfLicenses ==
    \A w \in Keys(total_counts) \cup Keys(shame_map) :
        CountOf(total_counts, w) =
            SumOver([i \in 1..Len(shame_counts) |-> CountOf(shame_counts[i].v, w)],
                    1..Len(shame_counts))

\* the items of a dict, whatever their order
Items(d) == {d[i] : i \in 1..Len(d)}

\* C21: after any sequence of on_page_markdown calls shame_counts, totals
\* and ratios have the same license names, totals[l] is the sum of the
\* values of shame_counts[l] for every license l, every counted word is a
\* key of shame_map, and the shame_counts, shame_total and shame_ratio
\* written to the metadata of a page are the values stored for the license
\* of the page.
C21_CountersConsistent ==
    /\ Keys(shame_counts) = Keys(totals)
    /\ Keys(shame_counts) = Keys(ratios)
    /\ \A i \in 1..Len(shame_counts) :
          /\ Value(totals, shame_counts[i].k) = SumValues(shame_counts[i].v)
          /\ Keys(shame_counts[i].v) \subseteq Keys(shame_map)
    /\ Keys(total_counts) \subseteq Keys(shame_map)
    /\ (last.op = "on_page_markdown" /\ last.updated) =>
          /\ Has(shame_counts, last.page.original_name)
          /\ Items(last.meta.shame_counts)
                 = Items(Value(shame_counts, last.page.original_name))
          /\ last.meta.shame_total = Value(totals, last.page.original_name)
          /\ last.meta.shame_ratio = Value(ratios, last.page.original_name)

\* the metadata of a GPL page were written when MIT had been counted before
C21_Witness ==
    /\ last.op = "on_page_markdown"
    /\ last.updated
    /\ last.page.original_name = "GPL"
    /\ Keys(shame_counts) = {"MIT", "GPL"}
    /\ last.meta.shame_total = 2
    /\ Items(last.meta.shame_counts) # Items(Value(shame_counts, "MIT"))

\* the values of a dict come in non-increasing order
NonIncreasing(d) == \A i \in 1..(Len(d) - 1) : d[i].v >= d[i + 1].v

\* C22: sort_all only reorders: after it total_counts, every
\* shame_counts[l], ratios and totals hold the keys and values they held
\* before, each in non-increasing order of value, and shame_map is
\* unchanged; calling sort_all again changes nothing.
C22_SortAllOnlyReorders ==
    (last.op = "on_page_markdown" /\ last.updated) =>
        /\ Items(total_counts) = Items(last.counted.total_counts)
        /\ Len(total_counts) = Len(last.counted.total_counts)
        /\ Keys(shame_counts) = Keys(last.counted.shame_counts)
        /\ Len(shame_counts) = Len(last.counted.shame_counts)
        /\ \A l \in Keys(shame_counts) :
              /\ Items(Value(shame_counts, l))
                     = Items(Value(last.counted.shame_counts, l))
              /\ Len(Value(shame_counts, l)) = Len(Value(last.counted.shame_counts, l))
              /\ NonIncreasing(Value(shame_counts, l))
        /\ Items(ratios) = Items(last.counted.ratios)
        /\ Len(ratios) = Len(last.counted.ratios)
        /\ Items(totals) = Items(last.counted.totals)
        /\ Len(totals) = Len(last.counted.totals)
        /\ NonIncreasing(total_counts)
        /\ NonIncreasing(ratios)
        /\ NonIncreasing(totals)
        /\ shame_map = last.counted.shame_map
        /\ sort_all(Fields) = Fields

\* sort_all was called on counters that were not in order: those of the
\* license and the totals of the licenses
C22_Witness ==
    /\ last.op = "on_page_markdown"
    /\ last.updated
    /\ ~NonIncreasing(last.counted.totals)
    /\ ~NonIncreasing(Value(last.counted.shame_counts, last.page.original_name))
    /\ totals # last.counted.totals

====
